---------------------------- MODULE Spec2Model ----------------------------
(***************************************************************************)
(* Batch submission and reconciliation of creatives:                       *)
(*   UploadManager.upload_to_trafficjunky  (scripts/upload_manager.py)     *)
(*   TJUploader.upload_creative_batch      (scripts/uploaders/tj_uploader) *)
(*   TJUploader._extract_new_creative_ids                                  *)
(*                                                                         *)
(* A file name is the sequence of its dot-separated segments, so           *)
(* "a.mp4" is <<"a", "mp4">> and the display name "a" is <<"a">>.          *)
(* The remote library is the sequence of creative containers the page      *)
(* shows, each with its data-id and the text of its creativeName label.    *)
(***************************************************************************)
EXTENDS Integers, Sequences, FiniteSets, TLC

\* ------------------------------------------------------------- bounds
MaxFiles == 2        \* files in the batch under upload
MaxPre == 1          \* creatives in the library before the run
MaxNew == 2          \* creatives the platform creates during the run

\* ---------------------------------------------------------- constants
max_retries == 3

FileNames == { <<"a", "mp4">>, <<"a", "jpg">>, <<"b", "mp4">> }

\* GroupOrder with the images uploaded before the videos.
GroupOrderImagesFirst == <<"native_image", "native_video", "image", "video">>

GroupOrder == <<"native_video", "native_image", "video", "image">>

\* The label of a container that has no creativeName label (or empty text).
NoLabel == << >>

\* What the platform does with one attached file: lists it under the full
\* file name, under the name without extension, under another name, or
\* creates nothing (rejected, duplicate, still processing).
Outcomes == {"full", "stem", "other", "none"}

OtherName == <<"other">>

\* name.rsplit('.', 1)[0]
StripExt(name) ==
    IF Len(name) > 1 THEN SubSeq(name, 1, Len(name) - 1) ELSE name

\* Label of the creatives already in the library before the run: the
\* extension-less name shared by two of the files.
PreNames == { <<"a">> }

Range(s) == { s[i] : i \in DOMAIN s }

SeqsUpTo(S, n) == UNION { [1..k -> S] : k \in 0..n }

Min(a, b) == IF a < b THEN a ELSE b

\* ------------------------------------------------------- file records

\* A creative type is the sequence of its underscore-separated words, so
\* 'native_video' is <<"native", "video">>.
NativeVideoType == <<"native", "video">>
NativeImageType == <<"native", "image">>
CreativeTypes == { NativeVideoType, NativeImageType, <<"video">>,
                   <<"short", "video">>, <<"image">>, <<"unknown">> }

\* sub in creative_type
Contains(sub, creative_type) ==
    \E i \in 1..(Len(creative_type) - Len(sub) + 1) :
        SubSeq(creative_type, i, i + Len(sub) - 1) = sub

\* The group key as a creative type.
TypeOfGroup(kind) ==
    CASE kind = "native_video" -> NativeVideoType
      [] kind = "native_image" -> NativeImageType
      [] OTHER                 -> << kind >>

\* The unique id "ID-<hex>" with the suffix "-VID" or "-IMG" of a native
\* pair member is [base, suffix]; the hexadecimal base holds no suffix.
UniqueId(base, suffix) == [base |-> base, suffix |-> suffix]

\* uid.replace(suffix, '') if uid.endswith(suffix) else uid
BaseOf(uid, suffix) ==
    IF uid.suffix = suffix THEN [uid EXCEPT !.suffix = ""] ELSE uid

\* A row of the session CSV as creative_processor writes it, with what
\* validate_file finds for it on disk: native pair members carry the
\* suffixed id and the base id as native_pair_id, the others the plain id
\* and no pair id.  size is in bytes, duration_seconds in hundredths of a
\* second (0: not known), tj_creative_id is 0 when the row has none.  pos
\* is the position of the row in the list, the identity of the dictionary.
FileRecord(pos, creative_type, base, name, on_disk, size, duration, known_id) ==
    [pos |-> pos,
     unique_id |->
         UniqueId(base, IF creative_type = NativeVideoType THEN "VID"
                        ELSE IF creative_type = NativeImageType THEN "IMG"
                        ELSE ""),
     native_pair_id |->
         IF Contains(<<"native">>, creative_type) THEN base ELSE 0,
     creative_type |-> creative_type,
     new_filename |-> name,
     on_disk |-> on_disk,
     size |-> size,
     duration_seconds |-> duration,
     tj_creative_id |-> known_id]

\* What main finds on its command line and in its environment: whether the
\* credentials are configured, where the files come from, the platform.
MainArgs ==
    [credentials : BOOLEAN, source : {"session", "files", "none"},
     platform : {"tj", "exo"}]

MainArgsOk == [credentials |-> TRUE, source |-> "session", platform |-> "tj"]

\* The positions of the records of a list.
Positions(records) == { records[i].pos : i \in DOMAIN records }

\* groups = {'native_video': [], 'native_image': [], 'video': [], 'image': []}
EmptyGroups == [ kind \in Range(GroupOrder) |-> << >> ]

VARIABLES
    valid_files,     \* new_filename of each file of the batch, in order
    group_name,      \* creative type of the batch
    dry_run,         \* TJUploader.dry_run
    library,         \* the platform's listing: containers [id, name]
    attached,        \* per file of the batch: times attached to the form
    pc,              \* position in the retry loop / upload_creative_batch
    attempt,         \* loop variable of the retry loop
    existing_ids,    \* upload_creative_batch: ids captured before upload
    post_listing,    \* _extract_new_creative_ids: the containers it read
    upload_result,   \* result dictionary of upload_creative_batch
    upload_results,  \* UploadManager.upload_results (per file records)
    summary,         \* summary counters of upload_to_trafficjunky
    tj_library_cache,\* filename -> creative id
    calls,           \* invocations of upload_creative_batch for the batch
    snapshots,       \* invocations of _get_existing_creative_ids
    sleeps,          \* backoff waits taken by the retry loop
    files,           \* the file records given to upload_to_trafficjunky
    config,          \* UploadManager.config: limit (0 for None) and force
    groups,          \* groups: creative type -> list of file records
    chunks,          \* creative type -> the chunks of its group
    group_idx,       \* loop variable over group_order (as an index)
    chunk_idx,       \* loop variable over the chunks of the group
    valid_records,   \* the file record of each file of valid_files
    submitted,       \* positions in files of the records attached so far
    auth,            \* how the authentication of the run ended
    args,            \* what main finds: credentials, --session, --platform
    exit_code,       \* return value of main (-1 while it runs)
    run_no,          \* 1 for the first invocation of main, 2 for the next
    cache_at_start,  \* tj_library_cache as __init__ loaded it
    steps,           \* the steps the current call of upload_creative_batch
                     \* has taken, each with its result
    tab,             \* the tab of the Media Library the page shows
    fault,           \* what ended upload_to_trafficjunky out of turn
    listing_pages,   \* _get_existing_creative_ids: pages of the listing
    current_page,    \* _get_existing_creative_ids: its page counter
    all_existing_ids,\* _get_existing_creative_ids: the ids collected
    snap_state,      \* _get_existing_creative_ids: where the scan is
    expected_count,  \* _wait_for_upload_completion: files of the batch
    elapsed,         \* _wait_for_upload_completion: its clock
    polls,           \* passes through the polling loop
    seen_complete,   \* a poll found completed_count >= expected_count
    wait_state,      \* _wait_for_upload_completion: polling or returned
    file_size_bytes, \* _compress_image_to_max_size: the size last measured
    image_file,      \* the file at image_path: its size and encoding
    compress_step,   \* _compress_image_to_max_size: the stage it is at
    compress_result  \* the dictionary _compress_image_to_max_size returns

\* The state of upload_to_trafficjunky and main around the batch loop.
run_vars == << files, config, groups, chunks, group_idx, chunk_idx,
               valid_records, auth, args, exit_code, run_no,
               cache_at_start >>

\* The locals of _get_existing_creative_ids.
snap_vars == << listing_pages, current_page, all_existing_ids, snap_state >>

\* The locals of _wait_for_upload_completion.
wait_vars == << expected_count, elapsed, polls, seen_complete, wait_state >>

\* The locals of NativeConverter._compress_image_to_max_size.
thumb_vars == << file_size_bytes, image_file, compress_step, compress_result >>

\* The state of the functions that are followed step by step on their own.
side_vars == << snap_vars, wait_vars, thumb_vars >>

\* The state of the manager and of the uploader.
core_vars == << valid_files, group_name, dry_run, library, attached, pc,
                attempt, existing_ids, post_listing, upload_result,
                upload_results, summary, tj_library_cache, calls, snapshots,
                sleeps, run_vars, submitted, steps, tab, fault >>

vars == << core_vars, side_vars >>

\* ------------------------------------------------- pure functions

\* ids of the containers of a listing
Ids(listing) == { listing[i].id : i \in DOMAIN listing }

\* The tab of the Media Library on which a batch of a kind is uploaded:
\* the Native tab with its Rollover sub-tab for native videos, the Native
\* tab with its default Static Banner sub-tab for native images, and the
\* tab the page opens on for the other kinds.
KindTab(kind) ==
    CASE kind = "native_video" -> "native_rollover"
      [] kind = "native_image" -> "native_static"
      [] OTHER -> "main"

\* The containers the page shows while a tab is selected: every tab has
\* a listing of its own.
Shown(listing, t) == SelectSeq(listing, LAMBDA c : c.tab = t)


\* _get_existing_creative_ids: the data-id of every container.  The
\* listings of this model fit one page of the library (12 creatives), and
\* the scan is taken on its normal path, where it does not raise.
GetExistingCreativeIds(listing) == Ids(listing)

\* NewContainers without the test against existing_ids.
NewContainersUnfiltered(listing, existing) ==
    SelectSeq(listing, LAMBDA c : c.name # NoLabel)

\* The containers that pass both filters of the scan loop: the id is not
\* in existing_ids and the container has a non-empty creativeName label.
NewContainers(listing, existing) ==
    SelectSeq(listing, LAMBDA c : c.id \notin existing /\ c.name # NoLabel)

\* filename_to_id[filename] = creative_id, assigned in container order, so
\* a later container with the same label overwrites an earlier one.
FilenameToId(news) ==
    [ nm \in { news[i].name : i \in DOMAIN news } |->
        LET last == CHOOSE i \in DOMAIN news :
                        /\ news[i].name = nm
                        /\ \A j \in DOMAIN news : news[j].name = nm => j <= i
        IN  news[last].id ]

\* The matching loop: exact name first, then the name without extension;
\* a file that matches neither contributes nothing to matched_ids.
RECURSIVE MatchIds(_, _)
MatchIds(names, map) ==
    IF names = << >> THEN << >>
    ELSE LET uploaded_name == Head(names)
             name_no_ext == StripExt(uploaded_name)
             rest == MatchIds(Tail(names), map)
         IN  IF uploaded_name \in DOMAIN map
               THEN << map[uploaded_name] >> \o rest
               ELSE IF name_no_ext \in DOMAIN map
                      THEN << map[name_no_ext] >> \o rest
                      ELSE rest

\* _extract_new_creative_ids(page, uploaded_file_names, existing_ids)
ExtractNewCreativeIds(listing, uploaded_file_names, existing) ==
    LET news == NewContainers(listing, existing)
    IN  IF news = << >> THEN << >>
        ELSE MatchIds(uploaded_file_names, FilenameToId(news))

\* ------------------------------------------------------------ initial

\* _get_existing_creative_ids has not been called.
SnapIdle ==
    /\ listing_pages = << >>
    /\ current_page = 0
    /\ all_existing_ids = {}
    /\ snap_state = "idle"

\* _wait_for_upload_completion has not been called.
WaitIdle ==
    /\ expected_count = 0
    /\ elapsed = 0
    /\ polls = 0
    /\ seen_complete = FALSE
    /\ wait_state = "idle"

\* _compress_image_to_max_size has not been called.
ThumbIdle ==
    /\ file_size_bytes = 0
    /\ image_file = [size |-> 0, encoding |-> "png"]
    /\ compress_step = [stage |-> "idle", param |-> 0]
    /\ compress_result = [success |-> FALSE, final_size |-> 0]

\* The functions followed on their own have not been called.
SideIdle == SnapIdle /\ WaitIdle /\ ThumbIdle

InitialResult ==
    [status |-> "failed", creative_ids |-> << >>, error |-> "None"]

Init ==
    /\ valid_files \in SeqsUpTo(FileNames, MaxFiles) \ { << >> }
    /\ group_name \in Range(GroupOrder)
    /\ dry_run \in BOOLEAN
    /\ \E names \in SeqsUpTo(PreNames, MaxPre) :
           \E tabs \in [DOMAIN names -> {"main", KindTab(group_name)}] :
               library = [ i \in DOMAIN names |->
                             [id |-> i, name |-> names[i], tab |-> tabs[i]] ]
    /\ attached = [ i \in DOMAIN valid_files |-> 0 ]
    /\ pc = "retry_loop"
    /\ attempt = 0
    /\ existing_ids = {}
    /\ post_listing = << >>
    /\ upload_result = InitialResult
    /\ upload_results = << >>
    /\ summary = [successful |-> 0, failed |-> 0, skipped |-> 0, results |-> 0]
    /\ tj_library_cache = [ f \in FileNames |-> 0 ]
    /\ calls = 0
    /\ snapshots = 0
    /\ sleeps = 0
    /\ valid_records =
          [ i \in DOMAIN valid_files |->
              FileRecord(i, TypeOfGroup(group_name), i, valid_files[i],
                         TRUE, 0, 0, 0) ]
    /\ files = valid_records
    /\ config = [limit |-> 0, force |-> FALSE]
    /\ groups = [EmptyGroups EXCEPT ![group_name] = valid_records]
    /\ chunks = [EmptyGroups EXCEPT ![group_name] = << valid_records >>]
    /\ group_idx = CHOOSE g \in DOMAIN GroupOrder : GroupOrder[g] = group_name
    /\ chunk_idx = 1
    /\ submitted = {}
    /\ auth = "session"
    /\ args = MainArgsOk
    /\ exit_code = -1
    /\ run_no = 1
    /\ cache_at_start = tj_library_cache
    /\ steps = << >>
    /\ tab = "main"
    /\ fault = "none"
    /\ SideIdle


\* --------------------------------------------- upload_creative_batch

\* The record of one executed step of upload_creative_batch: the helper
\* called and whether it returned True.
Step(name, ok) == [step |-> name, ok |-> ok]


\* A step of upload_creative_batch that sets result['error'] and returns.
ReturnFailed(err) ==
    /\ upload_result' = [upload_result EXCEPT !.error = err]
    /\ pc' = "check_result"

\* BeginAttempt with the backoff guarded by attempt > 1 instead of attempt > 0.
BeginAttemptLateBackoff ==
    /\ pc = "retry_loop"
    /\ attempt < max_retries
    /\ sleeps' = IF attempt > 1 THEN sleeps + 1 ELSE sleeps
    /\ calls' = calls + 1
    /\ upload_result' = InitialResult
    /\ existing_ids' = {}
    /\ post_listing' = << >>
    /\ pc' = "navigate"
    /\ steps' = << >>
    /\ UNCHANGED << run_vars, submitted, tab, fault, side_vars >>
    /\ UNCHANGED << valid_files, group_name, dry_run, library, attached,
                    attempt, upload_results, summary, tj_library_cache,
                    snapshots >>

\* The retry loop starts (or repeats) an attempt: the backoff sleep before
\* every attempt but the first, then the call of upload_creative_batch,
\* which builds its result dictionary; its locals start afresh.
BeginAttempt ==
    /\ pc = "retry_loop"
    /\ attempt < max_retries
    /\ sleeps' = IF attempt > 0 THEN sleeps + 1 ELSE sleeps
    /\ calls' = calls + 1
    /\ upload_result' = InitialResult
    /\ existing_ids' = {}
    /\ post_listing' = << >>
    /\ pc' = "navigate"
    /\ steps' = << >>
    /\ UNCHANGED << run_vars, submitted, tab, fault, side_vars >>
    /\ UNCHANGED << valid_files, group_name, dry_run, library, attached,
                    attempt, upload_results, summary, tj_library_cache,
                    snapshots >>

\* NavigateToCreativeLibrary that goes on to the next step whatever the
\* helper returned.
NavigateUnchecked ==
    /\ pc = "navigate"
    /\ \E ok \in BOOLEAN :
          steps' = Append(steps, Step("navigate", ok))
    /\ pc' = "capture_existing"
    /\ tab' = "main"
    /\ UNCHANGED << run_vars, submitted, fault, side_vars >>
    /\ UNCHANGED << valid_files, group_name, dry_run, library, attached,
                    attempt, existing_ids, post_listing, upload_result,
                    upload_results, summary, tj_library_cache, calls,
                    snapshots, sleeps >>


\* Step 1: _navigate_to_creative_library
NavigateToCreativeLibrary ==
    /\ pc = "navigate"
    /\ \E ok \in BOOLEAN :
          /\ steps' = Append(steps, Step("navigate", ok))
          /\ IF ok THEN /\ pc' = "capture_existing"
                        /\ tab' = "main"
                        /\ UNCHANGED upload_result
                   ELSE /\ ReturnFailed("Failed to navigate to Media Library")
                        /\ UNCHANGED tab
    /\ UNCHANGED << run_vars, submitted, fault, side_vars >>
    /\ UNCHANGED << valid_files, group_name, dry_run, library, attached,
                    attempt, existing_ids, post_listing, upload_results,
                    summary, tj_library_cache, calls, snapshots, sleeps >>

IsNative(creative_type) ==
    creative_type \in {"native_video", "native_image"}

\* Step 1.5: existing_ids = self._get_existing_creative_ids(page)
CaptureExistingIds ==
    /\ pc = "capture_existing"
    /\ existing_ids' = GetExistingCreativeIds(Shown(library, tab))
    /\ snapshots' = snapshots + 1
    /\ steps' = Append(steps, Step("snapshot", TRUE))
    /\ pc' = IF IsNative(group_name) THEN "native_tab" ELSE "add_creative"
    /\ UNCHANGED << run_vars, submitted, tab, fault, side_vars >>
    /\ UNCHANGED << valid_files, group_name, dry_run, library, attached,
                    attempt, post_listing, upload_result, upload_results,
                    summary, tj_library_cache, calls, sleeps >>

\* Step 2: _click_native_tab, for a native creative type
ClickNativeTab ==
    /\ pc = "native_tab"
    /\ \E ok \in BOOLEAN :
          /\ steps' = Append(steps, Step("native_tab", ok))
          /\ IF ok THEN /\ pc' = IF group_name = "native_video"
                                   THEN "rollover_tab" ELSE "add_creative"
                        /\ tab' = "native_static"
                        /\ UNCHANGED upload_result
                   ELSE /\ ReturnFailed("Failed to click Native tab")
                        /\ UNCHANGED tab
    /\ UNCHANGED << run_vars, submitted, fault, side_vars >>
    /\ UNCHANGED << valid_files, group_name, dry_run, library, attached,
                    attempt, existing_ids, post_listing, upload_results,
                    summary, tj_library_cache, calls, snapshots, sleeps >>

\* Step 3: _click_native_rollover_tab, for native_video
ClickNativeRolloverTab ==
    /\ pc = "rollover_tab"
    /\ \E ok \in BOOLEAN :
          /\ steps' = Append(steps, Step("rollover_tab", ok))
          /\ IF ok THEN /\ pc' = "add_creative"
                        /\ tab' = "native_rollover"
                        /\ UNCHANGED upload_result
                   ELSE /\ ReturnFailed("Failed to click Rollover sub-tab")
                        /\ UNCHANGED tab
    /\ UNCHANGED << run_vars, submitted, fault, side_vars >>
    /\ UNCHANGED << valid_files, group_name, dry_run, library, attached,
                    attempt, existing_ids, post_listing, upload_results,
                    summary, tj_library_cache, calls, snapshots, sleeps >>

\* ClickAddCreative that goes on to the files although the form did not
\* open.
ClickAddCreativeUnchecked ==
    /\ pc = "add_creative"
    /\ \E ok \in BOOLEAN :
          steps' = Append(steps, Step("add_creative", ok))
    /\ pc' = "dry_run_check"
    /\ UNCHANGED << run_vars, submitted, tab, fault, side_vars >>
    /\ UNCHANGED << valid_files, group_name, dry_run, library, attached,
                    attempt, existing_ids, post_listing, upload_result,
                    upload_results, summary, tj_library_cache, calls,
                    snapshots, sleeps >>


\* Step N: _click_add_creative opens the upload form
ClickAddCreative ==
    /\ pc = "add_creative"
    /\ \E ok \in BOOLEAN :
          /\ steps' = Append(steps, Step("add_creative", ok))
          /\ IF ok THEN pc' = "dry_run_check" /\ UNCHANGED upload_result
                   ELSE ReturnFailed("Failed to click Upload button")
    /\ UNCHANGED << run_vars, submitted, tab, fault, side_vars >>
    /\ UNCHANGED << valid_files, group_name, dry_run, library, attached,
                    attempt, existing_ids, post_listing, upload_results,
                    summary, tj_library_cache, calls, snapshots, sleeps >>

\* DryRunCheck that does not look at dry_run.
DryRunCheckIgnored ==
    /\ pc = "dry_run_check"
    /\ pc' = "upload_files"
    /\ UNCHANGED << run_vars, submitted, steps, tab, fault, side_vars >>
    /\ UNCHANGED << valid_files, group_name, dry_run, library, attached,
                    attempt, existing_ids, post_listing, upload_result,
                    upload_results, summary, tj_library_cache, calls,
                    snapshots, sleeps >>

\* Dry run check: return 'dry_run_success' before any file is attached
DryRunCheck ==
    /\ pc = "dry_run_check"
    /\ IF dry_run
         THEN /\ upload_result' =
                    [upload_result EXCEPT !.status = "dry_run_success"]
              /\ pc' = "check_result"
         ELSE /\ pc' = "upload_files"
              /\ UNCHANGED upload_result
    /\ UNCHANGED << run_vars, submitted, steps, tab, fault, side_vars >>
    /\ UNCHANGED << valid_files, group_name, dry_run, library, attached,
                    attempt, existing_ids, post_listing, upload_results,
                    summary, tj_library_cache, calls, snapshots, sleeps >>

\* _upload_files_batch: set_input_files attaches every file of the batch
UploadFilesBatch ==
    /\ pc = "upload_files"
    /\ \E ok \in BOOLEAN :
          /\ steps' = Append(steps, Step("upload_files", ok))
          /\ IF ok THEN /\ attached' = [ i \in DOMAIN attached |-> attached[i] + 1 ]
                        /\ submitted' = submitted \cup Positions(valid_records)
                        /\ pc' = "wait_completion"
                        /\ UNCHANGED upload_result
                   ELSE /\ ReturnFailed("Failed to upload files")
                        /\ UNCHANGED << attached, submitted >>
    /\ UNCHANGED << run_vars, tab, fault, side_vars >>
    /\ UNCHANGED << valid_files, group_name, dry_run, library, attempt,
                    existing_ids, post_listing, upload_results, summary,
                    tj_library_cache, calls, snapshots, sleeps >>

\* The display name the platform gives a file it lists.
Listed(name, how) ==
    CASE how = "full" -> name
      [] how = "stem" -> StripExt(name)
      [] OTHER        -> OtherName

\* The containers the platform adds for the attached files, in file
\* order, each with the next free id.
RECURSIVE Created(_, _, _, _, _)
Created(names, outcome, i, next_id, shown) ==
    IF i > Len(names) THEN << >>
    ELSE IF outcome[i] = "none"
           THEN Created(names, outcome, i + 1, next_id, shown)
           ELSE << [id |-> next_id, name |-> Listed(names[i], outcome[i]),
                     tab |-> shown] >>
                \o Created(names, outcome, i + 1, next_id + 1, shown)

\* The creatives the platform has created during the run: their ids lie
\* above the ids of the creatives that were there before.
CreatedInRun(listing) ==
    Cardinality({ i \in DOMAIN listing : listing[i].id > MaxPre })

\* _wait_for_upload_completion: while it polls, the platform processes the
\* attached files; it returns True on completion and False on timeout.
WaitForUploadCompletion ==
    /\ pc = "wait_completion"
    /\ \E outcome \in [DOMAIN valid_files -> Outcomes] :
          LET made == Created(valid_files, outcome, 1,
                              MaxPre + CreatedInRun(library) + 1, tab)
          IN  /\ CreatedInRun(library) + Len(made) <= MaxNew
              /\ library' = library \o made
    /\ \E ok \in BOOLEAN :
          /\ steps' = Append(steps, Step("wait_completion", ok))
          /\ IF ok THEN pc' = "extract_ids" /\ UNCHANGED upload_result
                   ELSE ReturnFailed("Upload processing timeout")
    /\ UNCHANGED << run_vars, submitted, tab, fault, side_vars >>
    /\ UNCHANGED << valid_files, group_name, dry_run, attached, attempt,
                    existing_ids, post_listing, upload_results, summary,
                    tj_library_cache, calls, snapshots, sleeps >>

\* ExtractIds that leaves the status 'failed' when no id was extracted.
ExtractIdsNoDuplicateStatus ==
    /\ pc = "extract_ids"
    /\ post_listing' = Shown(library, tab)
    /\ steps' = Append(steps, Step("extract_ids", TRUE))
    /\ \E raised \in BOOLEAN :
          LET creative_ids ==
                  IF raised THEN << >>
                  ELSE ExtractNewCreativeIds(Shown(library, tab), valid_files,
                                             existing_ids)
          IN  upload_result' =
                  IF creative_ids # << >>
                    THEN [upload_result EXCEPT !.status = "success",
                                               !.creative_ids = creative_ids]
                    ELSE [upload_result EXCEPT
                              !.error = "No new Creative IDs (possible duplicates)"]
    /\ pc' = "check_result"
    /\ UNCHANGED << run_vars, submitted, tab, fault, side_vars >>
    /\ UNCHANGED << valid_files, group_name, dry_run, library, attached,
                    attempt, existing_ids, upload_results, summary,
                    tj_library_cache, calls, snapshots, sleeps >>

\* creative_ids = self._extract_new_creative_ids(...): 'success' with the
\* ids when the list is non-empty, 'duplicate' otherwise.  An exception
\* inside the extraction yields the empty list.
ExtractIds ==
    /\ pc = "extract_ids"
    /\ post_listing' = Shown(library, tab)
    /\ steps' = Append(steps, Step("extract_ids", TRUE))
    /\ \E raised \in BOOLEAN :
          LET creative_ids ==
                  IF raised THEN << >>
                  ELSE ExtractNewCreativeIds(Shown(library, tab), valid_files,
                                             existing_ids)
          IN  upload_result' =
                  IF creative_ids # << >>
                    THEN [upload_result EXCEPT !.status = "success",
                                               !.creative_ids = creative_ids]
                    ELSE [upload_result EXCEPT !.status = "duplicate",
                              !.error = "No new Creative IDs (possible duplicates)"]
    /\ pc' = "check_result"
    /\ UNCHANGED << run_vars, submitted, tab, fault, side_vars >>
    /\ UNCHANGED << valid_files, group_name, dry_run, library, attached,
                    attempt, existing_ids, upload_results, summary,
                    tj_library_cache, calls, snapshots, sleeps >>


\* --------------------------------- upload_to_trafficjunky: the results

\* _save_upload_result(file_record, status, creative_id, error): the
\* record appended to upload_results for file i of the batch; pos tells
\* which file record of the input it was saved for.
SaveUploadResult(i, status, creative_id, error) ==
    [file |-> i, file_name |-> valid_files[i], status |-> status,
     tj_creative_id |-> creative_id, error_message |-> error,
     pos |-> valid_records[i].pos,
     unique_id |-> valid_records[i].unique_id,
     creative_type |-> valid_records[i].creative_type,
     native_pair_id |-> valid_records[i].native_pair_id]

\* UpdateTjLibraryCache that stores the first returned id for every file
\* of the pairs.
UpdateTjLibraryCacheFirstId(cache, creative_ids, m) ==
    [ f \in DOMAIN cache |->
        IF \E i \in 1..m : valid_files[i] = f
          THEN creative_ids[1]
          ELSE cache[f] ]

\* _update_tj_library_cache for the first m pairs of
\* zip(valid_files, creative_ids), in order.
RECURSIVE UpdateTjLibraryCache(_, _, _)
UpdateTjLibraryCache(cache, creative_ids, m) ==
    IF m = 0 THEN cache
    ELSE [ UpdateTjLibraryCache(cache, creative_ids, m - 1)
             EXCEPT ![valid_files[m]] = creative_ids[m] ]

\* RecordSuccess without the block that records the files left without id.
RecordSuccessMatchedOnly ==
    /\ pc = "check_result"
    /\ upload_result.status = "success"
    /\ LET creative_ids == upload_result.creative_ids
           n == Len(valid_files)
           m == Min(n, Len(creative_ids))
       IN  /\ upload_results' = upload_results
                 \o [ i \in 1..m |->
                        SaveUploadResult(i, "success", creative_ids[i], "") ]
           /\ tj_library_cache' =
                 UpdateTjLibraryCache(tj_library_cache, creative_ids, m)
           /\ summary' = [summary EXCEPT !.successful = @ + m,
                                         !.results = @ + 1]
    /\ pc' = "done"
    /\ UNCHANGED << run_vars, submitted, steps, tab, fault, side_vars >>
    /\ UNCHANGED << valid_files, group_name, dry_run, library, attached,
                    attempt, existing_ids, post_listing, upload_result,
                    calls, snapshots, sleeps >>

\* status == 'success': zip(valid_files, creative_ids) pairs file i with
\* the i-th returned id; the files past the last id are recorded failed.
RecordSuccess ==
    /\ pc = "check_result"
    /\ upload_result.status = "success"
    /\ LET creative_ids == upload_result.creative_ids
           n == Len(valid_files)
           m == Min(n, Len(creative_ids))
       IN  /\ upload_results' = upload_results
                 \o [ i \in 1..m |->
                        SaveUploadResult(i, "success", creative_ids[i], "") ]
                 \o [ j \in 1..(n - m) |->
                        SaveUploadResult(m + j, "failed", 0,
                                         "Creative ID not extracted") ]
           /\ tj_library_cache' =
                 UpdateTjLibraryCache(tj_library_cache, creative_ids, m)
           /\ summary' = [summary EXCEPT !.successful = @ + m,
                                         !.failed = @ + (n - m),
                                         !.results = @ + 1]
    /\ pc' = "done"
    /\ UNCHANGED << run_vars, submitted, steps, tab, fault, side_vars >>
    /\ UNCHANGED << valid_files, group_name, dry_run, library, attached,
                    attempt, existing_ids, post_listing, upload_result,
                    calls, snapshots, sleeps >>

\* RecordDuplicate that counts the files of the batch as failed.
RecordDuplicateCountedFailed ==
    /\ pc = "check_result"
    /\ upload_result.status = "duplicate"
    /\ upload_results' = upload_results
          \o [ i \in DOMAIN valid_files |->
                 SaveUploadResult(i, "duplicate", 0,
                     "File already exists on TJ (no new Creative ID)") ]
    /\ summary' = [summary EXCEPT !.failed = @ + Len(valid_files),
                                  !.results = @ + 1]
    /\ pc' = "done"
    /\ UNCHANGED << run_vars, submitted, steps, tab, fault, side_vars >>
    /\ UNCHANGED << valid_files, group_name, dry_run, library, attached,
                    attempt, existing_ids, post_listing, upload_result,
                    tj_library_cache, calls, snapshots, sleeps >>


\* status == 'duplicate': every file recorded 'duplicate', counted skipped
RecordDuplicate ==
    /\ pc = "check_result"
    /\ upload_result.status = "duplicate"
    /\ upload_results' = upload_results
          \o [ i \in DOMAIN valid_files |->
                 SaveUploadResult(i, "duplicate", 0,
                     "File already exists on TJ (no new Creative ID)") ]
    /\ summary' = [summary EXCEPT !.skipped = @ + Len(valid_files),
                                  !.results = @ + 1]
    /\ pc' = "done"
    /\ UNCHANGED << run_vars, submitted, steps, tab, fault, side_vars >>
    /\ UNCHANGED << valid_files, group_name, dry_run, library, attached,
                    attempt, existing_ids, post_listing, upload_result,
                    tj_library_cache, calls, snapshots, sleeps >>

\* RecordDryRun that counts the files of the batch as successful.
RecordDryRunCountedSuccessful ==
    /\ pc = "check_result"
    /\ upload_result.status = "dry_run_success"
    /\ upload_results' = upload_results
          \o [ i \in DOMAIN valid_files |->
                 SaveUploadResult(i, "dry_run", 0, "") ]
    /\ summary' = [summary EXCEPT !.successful = @ + Len(valid_files),
                                  !.results = @ + 1]
    /\ pc' = "done"
    /\ UNCHANGED << run_vars, submitted, steps, tab, fault, side_vars >>
    /\ UNCHANGED << valid_files, group_name, dry_run, library, attached,
                    attempt, existing_ids, post_listing, upload_result,
                    tj_library_cache, calls, snapshots, sleeps >>


\* RecordDryRun that saves the records without counting them.
RecordDryRunUncounted ==
    /\ pc = "check_result"
    /\ upload_result.status = "dry_run_success"
    /\ upload_results' = upload_results
          \o [ i \in DOMAIN valid_files |->
                 SaveUploadResult(i, "dry_run", 0, "") ]
    /\ summary' = [summary EXCEPT !.results = @ + 1]
    /\ pc' = "done"
    /\ UNCHANGED << run_vars, submitted, steps, tab, fault, side_vars >>
    /\ UNCHANGED << valid_files, group_name, dry_run, library, attached,
                    attempt, existing_ids, post_listing, upload_result,
                    tj_library_cache, calls, snapshots, sleeps >>


\* status == 'dry_run_success': every file recorded 'dry_run'
RecordDryRun ==
    /\ pc = "check_result"
    /\ upload_result.status = "dry_run_success"
    /\ upload_results' = upload_results
          \o [ i \in DOMAIN valid_files |->
                 SaveUploadResult(i, "dry_run", 0, "") ]
    /\ summary' = [summary EXCEPT !.skipped = @ + Len(valid_files),
                                  !.results = @ + 1]
    /\ pc' = "done"
    /\ UNCHANGED << run_vars, submitted, steps, tab, fault, side_vars >>
    /\ UNCHANGED << valid_files, group_name, dry_run, library, attached,
                    attempt, existing_ids, post_listing, upload_result,
                    tj_library_cache, calls, snapshots, sleeps >>

\* The else branch: not the final attempt, so the loop goes on.
RetryFailed ==
    /\ pc = "check_result"
    /\ upload_result.status = "failed"
    /\ attempt # max_retries - 1
    /\ attempt' = attempt + 1
    /\ pc' = "retry_loop"
    /\ UNCHANGED << run_vars, submitted, steps, tab, fault, side_vars >>
    /\ UNCHANGED << valid_files, group_name, dry_run, library, attached,
                    existing_ids, post_listing, upload_result,
                    upload_results, summary, tj_library_cache, calls,
                    snapshots, sleeps >>

\* RecordFailed that records the failure of every attempt, not only of
\* the final one.
RecordFailedEveryAttempt ==
    /\ pc = "check_result"
    /\ upload_result.status = "failed"
    /\ upload_results' = upload_results
          \o [ i \in DOMAIN valid_files |->
                 SaveUploadResult(i, "failed", 0, upload_result.error) ]
    /\ summary' = [summary EXCEPT !.failed = @ + Len(valid_files),
                                  !.results = @ + 1]
    /\ IF attempt = max_retries - 1
         THEN pc' = "done" /\ UNCHANGED attempt
         ELSE pc' = "retry_loop" /\ attempt' = attempt + 1
    /\ UNCHANGED << run_vars, submitted, steps, tab, fault, side_vars >>
    /\ UNCHANGED << valid_files, group_name, dry_run, library, attached,
                    existing_ids, post_listing, upload_result,
                    tj_library_cache, calls, snapshots, sleeps >>

\* The else branch on the final attempt: every file recorded 'failed'
\* with the error of this attempt, and the loop ends.
RecordFailed ==
    /\ pc = "check_result"
    /\ upload_result.status = "failed"
    /\ attempt = max_retries - 1
    /\ upload_results' = upload_results
          \o [ i \in DOMAIN valid_files |->
                 SaveUploadResult(i, "failed", 0, upload_result.error) ]
    /\ summary' = [summary EXCEPT !.failed = @ + Len(valid_files),
                                  !.results = @ + 1]
    /\ pc' = "done"
    /\ UNCHANGED << run_vars, submitted, steps, tab, fault, side_vars >>
    /\ UNCHANGED << valid_files, group_name, dry_run, library, attached,
                    attempt, existing_ids, post_listing, upload_result,
                    tj_library_cache, calls, snapshots, sleeps >>

Next ==
    \/ BeginAttempt
    \/ NavigateToCreativeLibrary
    \/ CaptureExistingIds
    \/ ClickNativeTab
    \/ ClickNativeRolloverTab
    \/ ClickAddCreative
    \/ DryRunCheck
    \/ UploadFilesBatch
    \/ WaitForUploadCompletion
    \/ ExtractIds
    \/ RecordSuccess
    \/ RecordDuplicate
    \/ RecordDryRun
    \/ RetryFailed
    \/ RecordFailed

Spec == Init /\ [][Next]_vars

TypeOK ==
    /\ pc \in {"retry_loop", "navigate", "capture_existing", "native_tab",
               "rollover_tab", "add_creative", "dry_run_check",
               "upload_files", "wait_completion", "extract_ids",
               "check_result", "done"}
    /\ attempt \in 0..(max_retries - 1)
    /\ Len(library) <= MaxPre + MaxNew
    /\ Len(upload_results) <= Len(valid_files)


\* ------------------------------- upload_to_trafficjunky: the batch plan

MAX_BATCH_SIZE == 10

\* The group a creative type falls into, "none" when no test matches;
\* lower() leaves the lower-case types of the session CSV as they are.
GroupOf(creative_type) ==
    IF Contains(NativeVideoType, creative_type) THEN "native_video"
    ELSE IF Contains(NativeImageType, creative_type) THEN "native_image"
    ELSE IF \/ Contains(<<"video">>, creative_type)
            \/ Contains(<<"short", "video">>, creative_type) THEN "video"
    ELSE IF Contains(<<"image">>, creative_type) THEN "image"
    ELSE "none"

\* _group_files_by_type(files)
GroupFilesByType(fs) ==
    [ kind \in Range(GroupOrder) |->
        SelectSeq(fs, LAMBDA r : GroupOf(r.creative_type) = kind) ]

\* s[:n] for n >= 0
Take(s, n) == SubSeq(s, 1, Min(n, Len(s)))

\* ApplyLimit that truncates the native videos and leaves the native
\* images as they are.
ApplyLimitVideosOnly(g, limit) ==
    IF limit = 0 THEN g
    ELSE LET paired == g["native_video"] # << >> /\ g["native_image"] # << >>
         IN  [ kind \in Range(GroupOrder) |->
                 CASE kind = "native_video" ->
                          IF paired THEN Take(g["native_video"], limit)
                          ELSE g["native_video"]
                   [] kind = "native_image" -> g["native_image"]
                   [] OTHER -> Take(g[kind], limit) ]

\* The 'if limit:' block.  With both native groups non-empty the native
\* videos are cut to the first limit and the native images filtered to
\* those whose base id is the base id of one of these videos; the video
\* and image groups are cut to their first limit files.
ApplyLimit(g, limit) ==
    IF limit = 0 THEN g
    ELSE LET paired == g["native_video"] # << >> /\ g["native_image"] # << >>
             limited_native_videos == Take(g["native_video"], limit)
             video_base_ids ==
                 { BaseOf(f.unique_id, "VID") :
                       f \in Range(limited_native_videos) }
             matching_images ==
                 SelectSeq(g["native_image"],
                           LAMBDA f : BaseOf(f.unique_id, "IMG")
                                          \in video_base_ids)
         IN  [ kind \in Range(GroupOrder) |->
                 CASE kind = "native_video" ->
                          IF paired THEN limited_native_videos
                          ELSE g["native_video"]
                   [] kind = "native_image" ->
                          IF paired THEN matching_images
                          ELSE g["native_image"]
                   [] OTHER -> Take(g[kind], limit) ]

\* Chunks that cuts a group every MAX_BATCH_SIZE + 1 files.
ChunksOversized(group_files) ==
    [ c \in 1..((Len(group_files) + MAX_BATCH_SIZE) \div (MAX_BATCH_SIZE + 1)) |->
        SubSeq(group_files, (c - 1) * (MAX_BATCH_SIZE + 1) + 1,
               Min(c * (MAX_BATCH_SIZE + 1), Len(group_files))) ]

\* Chunks whose slices are one file too long, so that consecutive chunks
\* share a file.
ChunksOverlapping(group_files) ==
    [ c \in 1..((Len(group_files) + MAX_BATCH_SIZE - 1) \div MAX_BATCH_SIZE) |->
        SubSeq(group_files, (c - 1) * MAX_BATCH_SIZE + 1,
               Min(c * MAX_BATCH_SIZE + 1, Len(group_files))) ]


\* [group_files[i:i + MAX_BATCH_SIZE]
\*      for i in range(0, total_files, MAX_BATCH_SIZE)]
Chunks(group_files) ==
    [ c \in 1..((Len(group_files) + MAX_BATCH_SIZE - 1) \div MAX_BATCH_SIZE) |->
        SubSeq(group_files, (c - 1) * MAX_BATCH_SIZE + 1,
               Min(c * MAX_BATCH_SIZE, Len(group_files))) ]

\* groups = self._group_files_by_type(files)
GroupFiles ==
    /\ pc = "group"
    /\ groups' = GroupFilesByType(files)
    /\ pc' = "limit"
    /\ UNCHANGED << valid_files, group_name, dry_run, library, attached,
                    attempt, existing_ids, post_listing, upload_result,
                    upload_results, summary, tj_library_cache, calls,
                    snapshots, sleeps, files, config, chunks, group_idx,
                    chunk_idx, valid_records, submitted, auth, args,
                    exit_code, run_no, cache_at_start, steps, tab,
                    fault, side_vars >>

\* limit = self.config.get('limit') and the block it guards
LimitGroups ==
    /\ pc = "limit"
    /\ groups' = ApplyLimit(groups, config.limit)
    /\ pc' = "group_loop"
    /\ UNCHANGED << valid_files, group_name, dry_run, library, attached,
                    attempt, existing_ids, post_listing, upload_result,
                    upload_results, summary, tj_library_cache, calls,
                    snapshots, sleeps, files, config, chunks, group_idx,
                    chunk_idx, valid_records, submitted, auth, args,
                    exit_code, run_no, cache_at_start, steps, tab,
                    fault, side_vars >>

\* The chunk list of every iteration of the loop over group_order, as the
\* plan of the run.
SplitChunks ==
    /\ pc = "group_loop"
    /\ chunks' = [ kind \in Range(GroupOrder) |-> Chunks(groups[kind]) ]
    /\ pc' = "planned"
    /\ UNCHANGED << valid_files, group_name, dry_run, library, attached,
                    attempt, existing_ids, post_listing, upload_result,
                    upload_results, summary, tj_library_cache, calls,
                    snapshots, sleeps, files, config, groups, group_idx,
                    chunk_idx, valid_records, submitted, auth, args,
                    exit_code, run_no, cache_at_start, steps, tab,
                    fault, side_vars >>

\* ---------------------------------------------- the plan on its own

MaxGroup == 11       \* files of one creative type in a planned input
MaxPairs == 5        \* native videos, and native images, in a paired input
MaxLimit == 2        \* largest --limit
MaxPlanLen == 3      \* files in a planned input of mixed types

\* A file name that suits the creative type.
NameFor(creative_type) ==
    IF Contains(<<"image">>, creative_type) THEN <<"a", "jpg">>
    ELSE <<"a", "mp4">>

\* A valid record of the session CSV that is on disk and not yet uploaded.
PlainRecord(pos, creative_type, base) ==
    FileRecord(pos, creative_type, base, NameFor(creative_type), TRUE, 0, 0, 0)

\* n files of one creative type.
UniformInput(creative_type, n) ==
    [ i \in 1..n |-> PlainRecord(i, creative_type, i) ]

\* ni native images, in descending order of their base ids, followed by
\* nv native videos in ascending order: pair b is video b and image b.
PairedInput(nv, ni) ==
    [ i \in 1..(ni + nv) |->
        IF i <= ni THEN PlainRecord(i, NativeImageType, ni + 1 - i)
        ELSE PlainRecord(i, NativeVideoType, i - ni) ]

\* Files of any types in any order, with base ids 1 and 2.
MixedInputs ==
    { [ i \in DOMAIN ts |-> PlainRecord(i, ts[i][1], ts[i][2]) ] :
          ts \in SeqsUpTo(CreativeTypes \X (1..2), MaxPlanLen) }

PlanInputs ==
    { UniformInput(t, n) : t \in CreativeTypes, n \in 0..MaxGroup }
        \cup { PairedInput(nv, ni) : nv \in 0..MaxPairs, ni \in 0..MaxPairs }
        \cup MixedInputs

\* No batch is under upload and nothing is recorded: the state of the
\* manager after construction, with an empty duplicate cache.
Idle ==
    /\ valid_files = << >>
    /\ valid_records = << >>
    /\ group_name = GroupOrder[1]
    /\ attached = << >>
    /\ attempt = 0
    /\ existing_ids = {}
    /\ post_listing = << >>
    /\ upload_result = InitialResult
    /\ upload_results = << >>
    /\ summary = [successful |-> 0, failed |-> 0, skipped |-> 0, results |-> 0]
    /\ calls = 0
    /\ snapshots = 0
    /\ sleeps = 0
    /\ groups = EmptyGroups
    /\ chunks = [ kind \in Range(GroupOrder) |-> << >> ]
    /\ group_idx = 1
    /\ chunk_idx = 1
    /\ submitted = {}
    /\ auth = "pending"
    /\ exit_code = -1
    /\ run_no = 1
    /\ steps = << >>
    /\ tab = "main"
    /\ fault = "none"

PlanInit ==
    /\ Idle
    /\ files \in PlanInputs
    /\ config \in [limit : 0..MaxLimit, force : {FALSE}]
    /\ dry_run = TRUE
    /\ library = << >>
    /\ tj_library_cache = [ f \in FileNames |-> 0 ]
    /\ cache_at_start = tj_library_cache
    /\ args = MainArgsOk
    /\ pc = "group"
    /\ SideIdle

PlanNext ==
    \/ GroupFiles
    \/ LimitGroups
    \/ SplitChunks

PlanSpec == PlanInit /\ [][PlanNext]_vars

\* ------------------------------------------------------------ the run

MAX_NATIVE_IMAGE_KB == 300
MIN_INSTREAM_SECONDS == 5
MAX_INSTREAM_SECONDS == 31

\* Bytes in the decimal kilobyte validate_file divides by.
BytesPerKB == 1000

\* duration_seconds is rounded to two decimals: hundredths in a second.
Hundredths == 100

\* ValidateFile that rejects a duration at either end of the range.
ValidateFileOpenRange(f) ==
    IF ~f.on_disk
      THEN [is_valid |-> FALSE, error |-> "File not found"]
    ELSE IF /\ Contains(NativeImageType, f.creative_type)
            /\ f.size > MAX_NATIVE_IMAGE_KB * BytesPerKB
      THEN [is_valid |-> FALSE, error |-> "Native image too large"]
    ELSE IF /\ \/ Contains(<<"video">>, f.creative_type)
               \/ Contains(<<"short", "video">>, f.creative_type)
            /\ ~Contains(<<"native">>, f.creative_type)
            /\ f.duration_seconds # 0
            /\ f.duration_seconds <= MIN_INSTREAM_SECONDS * Hundredths
      THEN [is_valid |-> FALSE, error |-> "In-Stream video too short"]
    ELSE IF /\ \/ Contains(<<"video">>, f.creative_type)
               \/ Contains(<<"short", "video">>, f.creative_type)
            /\ ~Contains(<<"native">>, f.creative_type)
            /\ f.duration_seconds # 0
            /\ f.duration_seconds >= MAX_INSTREAM_SECONDS * Hundredths
      THEN [is_valid |-> FALSE, error |-> "In-Stream video too long"]
    ELSE [is_valid |-> TRUE, error |-> "None"]

\* validate_file(file_record): (is_valid, error_message).  The messages
\* are those of the code without the formatted path, size or duration.
ValidateFile(f) ==
    IF ~f.on_disk
      THEN [is_valid |-> FALSE, error |-> "File not found"]
    ELSE IF /\ Contains(NativeImageType, f.creative_type)
            /\ f.size > MAX_NATIVE_IMAGE_KB * BytesPerKB
      THEN [is_valid |-> FALSE, error |-> "Native image too large"]
    ELSE IF /\ \/ Contains(<<"video">>, f.creative_type)
               \/ Contains(<<"short", "video">>, f.creative_type)
            /\ ~Contains(<<"native">>, f.creative_type)
            /\ f.duration_seconds # 0
            /\ f.duration_seconds < MIN_INSTREAM_SECONDS * Hundredths
      THEN [is_valid |-> FALSE, error |-> "In-Stream video too short"]
    ELSE IF /\ \/ Contains(<<"video">>, f.creative_type)
               \/ Contains(<<"short", "video">>, f.creative_type)
            /\ ~Contains(<<"native">>, f.creative_type)
            /\ f.duration_seconds # 0
            /\ f.duration_seconds > MAX_INSTREAM_SECONDS * Hundredths
      THEN [is_valid |-> FALSE, error |-> "In-Stream video too long"]
    ELSE [is_valid |-> TRUE, error |-> "None"]

\* _check_tj_library_duplicate(filename): 0 stands for None
CheckTjLibraryDuplicate(filename) == tj_library_cache[filename]

\* Screen that skips an uploaded or cached record whether or not --force
\* is given.
ScreenIgnoringForce(f) ==
    IF ~ValidateFile(f).is_valid
      THEN [skip |-> TRUE, creative_id |-> 0, error |-> ValidateFile(f).error]
    ELSE IF f.tj_creative_id # 0
      THEN [skip |-> TRUE, creative_id |-> f.tj_creative_id,
            error |-> "Already uploaded (use --force to re-upload)"]
    ELSE IF CheckTjLibraryDuplicate(f.new_filename) # 0
      THEN [skip |-> TRUE,
            creative_id |-> CheckTjLibraryDuplicate(f.new_filename),
            error |-> "Already exists on TJ (from library cache)"]
    ELSE [skip |-> FALSE, creative_id |-> 0, error |-> "None"]


\* Screen without the lookup in the library cache.
ScreenWithoutCache(f) ==
    IF ~ValidateFile(f).is_valid
      THEN [skip |-> TRUE, creative_id |-> 0, error |-> ValidateFile(f).error]
    ELSE IF ~config.force /\ f.tj_creative_id # 0
      THEN [skip |-> TRUE, creative_id |-> f.tj_creative_id,
            error |-> "Already uploaded (use --force to re-upload)"]
    ELSE [skip |-> FALSE, creative_id |-> 0, error |-> "None"]

\* The body of the loop over chunk_files for one file record: whether
\* the record is skipped, and the id and the error it is then saved with.
Screen(f) ==
    IF ~ValidateFile(f).is_valid
      THEN [skip |-> TRUE, creative_id |-> 0, error |-> ValidateFile(f).error]
    ELSE IF ~config.force /\ f.tj_creative_id # 0
      THEN [skip |-> TRUE, creative_id |-> f.tj_creative_id,
            error |-> "Already uploaded (use --force to re-upload)"]
    ELSE IF ~config.force /\ CheckTjLibraryDuplicate(f.new_filename) # 0
      THEN [skip |-> TRUE,
            creative_id |-> CheckTjLibraryDuplicate(f.new_filename),
            error |-> "Already exists on TJ (from library cache)"]
    ELSE [skip |-> FALSE, creative_id |-> 0, error |-> "None"]

\* _save_upload_result(file_record, 'skipped', ...) for a record that is
\* in no batch (file 0).
SaveSkipped(f) ==
    [file |-> 0, file_name |-> f.new_filename, status |-> "skipped",
     tj_creative_id |-> Screen(f).creative_id,
     error_message |-> Screen(f).error,
     pos |-> f.pos,
     unique_id |-> f.unique_id,
     creative_type |-> f.creative_type,
     native_pair_id |-> f.native_pair_id]

\* The chunk the loops are at.
ChunkFiles == Chunks(groups[GroupOrder[group_idx]])[chunk_idx]

\* The locals of the batch loop and of upload_creative_batch.
batch_vars == << valid_files, valid_records, group_name, attached, attempt,
                 existing_ids, post_listing, upload_result, calls,
                 snapshots, sleeps >>

\* What the run is given: the session files, the configuration, the
\* command line.
input_vars == << files, config, dry_run, args, run_no, cache_at_start >>

\* main up to the call of upload_to_trafficjunky: 1 is returned when the
\* credentials are placeholders, when --session finds no file, when
\* --session is not given, and for a platform other than tj.
Main ==
    /\ pc = "main"
    /\ IF \/ ~args.credentials
          \/ args.source # "session"
          \/ files = << >>
          \/ args.platform # "tj"
         THEN exit_code' = 1 /\ pc' = "exit"
         ELSE pc' = "authenticate" /\ UNCHANGED exit_code
    /\ UNCHANGED << batch_vars, input_vars, library, upload_results, summary,
                    tj_library_cache, groups, chunks, group_idx, chunk_idx,
                    submitted, auth >>
    /\ UNCHANGED << steps, tab, fault, side_vars >>

\* Authenticate that goes on to the batches whether or not the login
\* succeeded.
AuthenticateIgnoringFailure ==
    /\ pc = "authenticate"
    /\ \E logged_in \in BOOLEAN :
          /\ auth' = IF logged_in THEN "logged_in" ELSE "failed"
          /\ pc' = "group"
    /\ UNCHANGED << batch_vars, input_vars, library, upload_results, summary,
                    tj_library_cache, groups, chunks, group_idx, chunk_idx,
                    submitted, exit_code >>
    /\ UNCHANGED << steps, tab, fault, side_vars >>

\* The saved session is loaded and checked, and failing that the manual
\* login is awaited; when manual_login fails the browser is closed and
\* the summary returned as it was built.
Authenticate ==
    /\ pc = "authenticate"
    /\ \E logged_in \in BOOLEAN :
          /\ auth' = IF logged_in THEN "logged_in" ELSE "failed"
          /\ pc' = IF logged_in THEN "group" ELSE "return"
    /\ UNCHANGED << batch_vars, input_vars, library, upload_results, summary,
                    tj_library_cache, groups, chunks, group_idx, chunk_idx,
                    submitted, exit_code >>
    /\ UNCHANGED << steps, tab, fault, side_vars >>

\* The groups from group_idx on that are not empty.
GroupsLeft(from) ==
    { g \in from..Len(GroupOrder) : groups[GroupOrder[g]] # << >> }

\* for group_name in group_order, with the continue on an empty group;
\* when the groups are exhausted the browser is closed, the status CSV
\* saved and the summary returned.
NextGroup ==
    /\ pc = "group_loop"
    /\ IF GroupsLeft(group_idx) = {}
         THEN /\ group_idx' = Len(GroupOrder) + 1
              /\ pc' = "return"
              /\ UNCHANGED group_name
         ELSE LET g == CHOOSE g \in GroupsLeft(group_idx) :
                           \A h \in GroupsLeft(group_idx) : g <= h
              IN  /\ group_idx' = g
                  /\ group_name' = GroupOrder[g]
                  /\ pc' = "validate"
    /\ chunk_idx' = 1
    /\ UNCHANGED << valid_files, valid_records, attached, attempt,
                    existing_ids, post_listing, upload_result, calls,
                    snapshots, sleeps, input_vars, library, upload_results,
                    summary, tj_library_cache, groups, chunks, submitted,
                    auth, exit_code >>
    /\ UNCHANGED << steps, tab, fault, side_vars >>

\* The step of the loops after a chunk: the next chunk of the group, or
\* the next group.
Advance ==
    IF chunk_idx < Len(Chunks(groups[GroupOrder[group_idx]]))
      THEN /\ chunk_idx' = chunk_idx + 1
           /\ pc' = "validate"
           /\ UNCHANGED group_idx
      ELSE /\ chunk_idx' = 1
           /\ group_idx' = group_idx + 1
           /\ pc' = "group_loop"

\* The loop over chunk_files: a record that fails validate_file, or that
\* is already uploaded or cached (without --force), is saved 'skipped';
\* the others form valid_files.  With no valid file the chunk is left
\* ('continue'); otherwise the retry loop starts.
ValidateChunk ==
    /\ pc = "validate"
    /\ LET skipped == SelectSeq(ChunkFiles, LAMBDA f : Screen(f).skip)
           valid == SelectSeq(ChunkFiles, LAMBDA f : ~Screen(f).skip)
       IN  /\ upload_results' = upload_results
                 \o [ k \in DOMAIN skipped |-> SaveSkipped(skipped[k]) ]
           /\ summary' = [summary EXCEPT !.skipped = @ + Len(skipped)]
           /\ IF valid = << >>
                THEN /\ Advance
                     /\ UNCHANGED batch_vars
                ELSE /\ valid_records' = valid
                     /\ valid_files' =
                           [ i \in DOMAIN valid |-> valid[i].new_filename ]
                     /\ attached' = [ i \in DOMAIN valid |-> 0 ]
                     /\ attempt' = 0
                     /\ existing_ids' = {}
                     /\ post_listing' = << >>
                     /\ upload_result' = InitialResult
                     /\ calls' = 0
                     /\ snapshots' = 0
                     /\ sleeps' = 0
                     /\ pc' = "retry_loop"
                     /\ UNCHANGED << group_name, group_idx, chunk_idx >>
    /\ UNCHANGED << input_vars, library, tj_library_cache, groups, chunks,
                    submitted, auth, exit_code >>
    /\ UNCHANGED << steps, tab, fault, side_vars >>

\* What the platform does with an attached file in a run: it lists it
\* under its file name or creates nothing.
RunOutcomes == {"full", "none"}

\* How a call of upload_creative_batch goes in a run: the navigation
\* fails; or every step up to the upload succeeds and the processing
\* times out before the platform has listed anything; or it completes
\* and the platform has dealt with every file.
RunPaths == {"navigate_failed", "timeout", "completed"}

\* The try block of upload_creative_batch entered whatever file_paths
\* holds, without the test of the empty list.
UploadCreativeBatchResultUnguarded ==
    \E path \in RunPaths :
          IF path = "navigate_failed"
            THEN /\ upload_result' =
                       [upload_result EXCEPT
                           !.error = "Failed to navigate to Media Library"]
                 /\ UNCHANGED << existing_ids, snapshots, attached,
                                 submitted, library, post_listing >>
            ELSE /\ existing_ids' = GetExistingCreativeIds(Shown(library, "main"))
                 /\ snapshots' = snapshots + 1
                 /\ IF dry_run
                      THEN /\ upload_result' =
                                 [upload_result EXCEPT
                                     !.status = "dry_run_success"]
                           /\ UNCHANGED << attached, submitted, library,
                                           post_listing >>
                      ELSE /\ attached' =
                                 [ i \in DOMAIN attached |-> attached[i] + 1 ]
                           /\ submitted' =
                                 submitted \cup Positions(valid_records)
                           /\ IF path = "timeout"
                                THEN /\ upload_result' =
                                           [upload_result EXCEPT
                                               !.error = "Upload processing timeout"]
                                     /\ UNCHANGED << library, post_listing >>
                                ELSE /\ \E outcome \in [DOMAIN valid_files -> RunOutcomes] :
                                           LET made == Created(valid_files, outcome, 1,
                                                           MaxPre + CreatedInRun(library) + 1,
                                                           KindTab(group_name))
                                           IN  /\ CreatedInRun(library) + Len(made) <= MaxNew
                                               /\ library' = library \o made
                                     /\ post_listing' = Shown(library', KindTab(group_name))
                                     /\ LET creative_ids ==
                                                ExtractNewCreativeIds(post_listing',
                                                    valid_files, existing_ids')
                                        IN  upload_result' =
                                              IF creative_ids # << >>
                                                THEN [upload_result EXCEPT
                                                        !.status = "success",
                                                        !.creative_ids = creative_ids]
                                                ELSE [upload_result EXCEPT
                                                        !.status = "duplicate",
                                                        !.error = "No new Creative IDs (possible duplicates)"]

\* What a call of upload_creative_batch does and returns: for an empty
\* file_paths the result dictionary with 'No files provided', before any
\* step; otherwise navigation, the capture of the existing ids, the tabs,
\* the upload form, the dry-run return, the attachment of the files, the
\* wait for completion and the extraction of the new ids.
UploadCreativeBatchResult ==
    IF valid_files = << >>
      THEN /\ upload_result' =
                 [upload_result EXCEPT !.error = "No files provided"]
           /\ UNCHANGED << existing_ids, snapshots, attached, submitted,
                           library, post_listing >>
      ELSE \E path \in RunPaths :
          IF path = "navigate_failed"
            THEN /\ upload_result' =
                       [upload_result EXCEPT
                           !.error = "Failed to navigate to Media Library"]
                 /\ UNCHANGED << existing_ids, snapshots, attached,
                                 submitted, library, post_listing >>
            ELSE /\ existing_ids' = GetExistingCreativeIds(Shown(library, "main"))
                 /\ snapshots' = snapshots + 1
                 /\ IF dry_run
                      THEN /\ upload_result' =
                                 [upload_result EXCEPT
                                     !.status = "dry_run_success"]
                           /\ UNCHANGED << attached, submitted, library,
                                           post_listing >>
                      ELSE /\ attached' =
                                 [ i \in DOMAIN attached |-> attached[i] + 1 ]
                           /\ submitted' =
                                 submitted \cup Positions(valid_records)
                           /\ IF path = "timeout"
                                THEN /\ upload_result' =
                                           [upload_result EXCEPT
                                               !.error = "Upload processing timeout"]
                                     /\ UNCHANGED << library, post_listing >>
                                ELSE /\ \E outcome \in [DOMAIN valid_files -> RunOutcomes] :
                                           LET made == Created(valid_files, outcome, 1,
                                                           MaxPre + CreatedInRun(library) + 1,
                                                           KindTab(group_name))
                                           IN  /\ CreatedInRun(library) + Len(made) <= MaxNew
                                               /\ library' = library \o made
                                     /\ post_listing' = Shown(library', KindTab(group_name))
                                     /\ LET creative_ids ==
                                                ExtractNewCreativeIds(post_listing',
                                                    valid_files, existing_ids')
                                        IN  upload_result' =
                                              IF creative_ids # << >>
                                                THEN [upload_result EXCEPT
                                                        !.status = "success",
                                                        !.creative_ids = creative_ids]
                                                ELSE [upload_result EXCEPT
                                                        !.status = "duplicate",
                                                        !.error = "No new Creative IDs (possible duplicates)"]

\* upload_creative_batch(page, file_paths, screenshot_dir, creative_type)
\* called by the retry loop, as one step.
UploadCreativeBatch ==
    /\ pc = "navigate"
    /\ UploadCreativeBatchResult
    /\ pc' = "check_result"
    /\ UNCHANGED << valid_files, valid_records, group_name, attempt, calls,
                    sleeps, input_vars, upload_results, summary,
                    tj_library_cache, groups, chunks, group_idx, chunk_idx,
                    auth, exit_code >>
    /\ UNCHANGED << steps, tab, fault, side_vars >>

\* The batch is settled: on to the next chunk or group.  The locals of
\* the iteration (valid_files, the attempt, the result of the last call)
\* end here.
NextChunk ==
    /\ pc = "done"
    /\ Advance
    /\ valid_files' = << >>
    /\ valid_records' = << >>
    /\ attached' = << >>
    /\ attempt' = 0
    /\ existing_ids' = {}
    /\ post_listing' = << >>
    /\ upload_result' = InitialResult
    /\ calls' = 0
    /\ snapshots' = 0
    /\ sleeps' = 0
    /\ UNCHANGED << group_name, input_vars, library, upload_results, summary,
                    tj_library_cache, groups, chunks, submitted, auth,
                    exit_code >>
    /\ UNCHANGED << steps, tab, fault, side_vars >>

\* upload_to_trafficjunky has returned its summary: main prints it and
\* returns 0.
MainReturn ==
    /\ pc = "return"
    /\ exit_code' = 0
    /\ pc' = "exit"
    /\ UNCHANGED << batch_vars, input_vars, library, upload_results, summary,
                    tj_library_cache, groups, chunks, group_idx, chunk_idx,
                    submitted, auth >>
    /\ UNCHANGED << steps, tab, fault, side_vars >>

MaxRunFiles == 2     \* file records in the session of a run

\* main is invoked again, with the same command line and session, after
\* a run that recorded an upload: a new UploadManager is constructed,
\* its cache loaded from the library CSV the first run wrote; the
\* platform keeps its library.
StartSecondRun ==
    /\ pc = "exit"
    /\ run_no = 1
    /\ \E k \in DOMAIN upload_results : upload_results[k].status = "success"
    /\ run_no' = 2
    /\ cache_at_start' = tj_library_cache
    /\ upload_results' = << >>
    /\ summary' = [successful |-> 0, failed |-> 0, skipped |-> 0, results |-> 0]
    /\ groups' = EmptyGroups
    /\ group_idx' = 1
    /\ chunk_idx' = 1
    /\ submitted' = {}
    /\ auth' = "pending"
    /\ exit_code' = -1
    /\ pc' = "main"
    /\ UNCHANGED << batch_vars, files, config, dry_run, args, library,
                    tj_library_cache, chunks >>
    /\ UNCHANGED << steps, tab, fault, side_vars >>

\* A creative id the inventory already holds for a record.
KnownId == 9

\* The file names of a run differ from record to record, as the unique
\* id is part of the name: the name of the record at a position.
RunStems == <<"a", "b", "c", "d">>

RunName(pos, creative_type) ==
    << RunStems[pos],
       IF Contains(<<"image">>, creative_type) THEN "jpg" ELSE "mp4" >>

RunNames ==
    { << RunStems[pos], ext >> : pos \in 1..MaxRunFiles, ext \in {"jpg", "mp4"} }

\* What a record of a run can be: a native video, a native image at the
\* size limit, an image, an in-stream video at either end of the
\* duration range, each on disk and not yet uploaded; or a record that
\* is skipped: a native video or an image that is not on disk, an image
\* already uploaded, a native image one byte over the limit, an
\* in-stream video just beyond either end of the duration range.
RunShapes ==
    LET limit_size == MAX_NATIVE_IMAGE_KB * BytesPerKB
        shortest == MIN_INSTREAM_SECONDS * Hundredths
        longest == MAX_INSTREAM_SECONDS * Hundredths
        plain(t) == [creative_type |-> t, on_disk |-> TRUE,
                     size |-> limit_size, duration |-> 0, known |-> 0]
    IN  { plain(t) : t \in {NativeVideoType, NativeImageType, <<"image">>} }
          \cup { [plain(<<"video">>) EXCEPT !.duration = d] :
                     d \in {shortest - 1, shortest, longest, longest + 1} }
          \cup { [plain(t) EXCEPT !.on_disk = FALSE] :
                     t \in {NativeVideoType, <<"image">>} }
          \cup { [plain(<<"image">>) EXCEPT !.known = KnownId] }
          \cup { [plain(NativeImageType) EXCEPT !.size = limit_size + 1] }

\* The sessions of a run: up to MaxRunFiles records in any order; the
\* native records belong to pair 1, the others carry their own id.
RunInputs ==
    { [ i \in DOMAIN shapes |->
          FileRecord(i, shapes[i].creative_type,
                     IF Contains(<<"native">>, shapes[i].creative_type)
                       THEN 1 ELSE i + 1,
                     RunName(i, shapes[i].creative_type), shapes[i].on_disk,
                     shapes[i].size, shapes[i].duration, shapes[i].known) ] :
          shapes \in SeqsUpTo(RunShapes, MaxRunFiles) }

RunInit ==
    /\ Idle
    /\ files \in RunInputs
    /\ config \in [limit : 0..1, force : BOOLEAN]
    /\ dry_run \in BOOLEAN
    /\ library = << >>
    /\ tj_library_cache = [ f \in RunNames |-> 0 ]
    /\ cache_at_start = tj_library_cache
    /\ args \in MainArgs
    /\ pc = "main"
    /\ SideIdle

RunNext ==
    \/ Main
    \/ Authenticate
    \/ GroupFiles
    \/ LimitGroups
    \/ NextGroup
    \/ ValidateChunk
    \/ BeginAttempt
    \/ UploadCreativeBatch
    \/ RecordSuccess
    \/ RecordDuplicate
    \/ RecordDryRun
    \/ RetryFailed
    \/ RecordFailed
    \/ NextChunk
    \/ MainReturn
    \/ StartSecondRun

RunSpec == RunInit /\ [][RunNext]_vars

\* ------------------------------- upload_creative_batch called directly

\* The file lists a caller can hand to upload_creative_batch, the empty
\* list among them.
DirectLists == SeqsUpTo(RunNames, MaxRunFiles)

\* A caller other than the batch loop holds an uploader and a page on
\* the platform and is about to call upload_creative_batch with a list
\* of paths and a creative type.
DirectInit ==
    /\ valid_files \in DirectLists
    /\ group_name \in Range(GroupOrder)
    /\ valid_records =
          [ i \in DOMAIN valid_files |->
              FileRecord(i, TypeOfGroup(group_name), i, valid_files[i],
                         TRUE, 0, 0, 0) ]
    /\ files = valid_records
    /\ attached = [ i \in DOMAIN valid_files |-> 0 ]
    /\ dry_run \in BOOLEAN
    /\ \E names \in SeqsUpTo(PreNames, MaxPre) :
           library = [ i \in DOMAIN names |->
                         [id |-> i, name |-> names[i], tab |-> "main"] ]
    /\ config = [limit |-> 0, force |-> FALSE]
    /\ tj_library_cache = [ f \in RunNames |-> 0 ]
    /\ cache_at_start = tj_library_cache
    /\ attempt = 0
    /\ existing_ids = {}
    /\ post_listing = << >>
    /\ upload_result = InitialResult
    /\ upload_results = << >>
    /\ summary = [successful |-> 0, failed |-> 0, skipped |-> 0, results |-> 0]
    /\ calls = 0
    /\ snapshots = 0
    /\ sleeps = 0
    /\ groups = EmptyGroups
    /\ chunks = [ kind \in Range(GroupOrder) |-> << >> ]
    /\ group_idx = 1
    /\ chunk_idx = 1
    /\ submitted = {}
    /\ auth = "logged_in"
    /\ args = MainArgsOk
    /\ exit_code = -1
    /\ run_no = 1
    /\ steps = << >>
    /\ tab = "main"
    /\ fault = "none"
    /\ pc = "direct_call"
    /\ SideIdle

\* upload_creative_batch(page, file_paths, screenshot_dir, creative_type)
\* called directly, as one step, up to its return.
DirectCall ==
    /\ pc = "direct_call"
    /\ UploadCreativeBatchResult
    /\ calls' = calls + 1
    /\ pc' = "direct_returned"
    /\ UNCHANGED << valid_files, valid_records, group_name, attempt,
                    sleeps, input_vars, upload_results, summary,
                    tj_library_cache, groups, chunks, group_idx, chunk_idx,
                    auth, exit_code >>
    /\ UNCHANGED << steps, tab, fault, side_vars >>

\* The two ways into upload_creative_batch: a run of main, or a call of
\* the method itself.
CallInit == RunInit \/ DirectInit

CallNext == RunNext \/ DirectCall

CallSpec == CallInit /\ [][CallNext]_vars

\* The end of upload_to_trafficjunky after the last batch: the master
\* CSV is updated and the campaign CSVs are generated when
\* summary['successful'] > 0, and not otherwise.
MasterCsvWritten ==
    /\ pc \in {"return", "exit"}
    /\ auth = "logged_in"
    /\ fault = "none"
    /\ summary.successful > 0

\* ------------------------------------------- the run with its faults

\* Where upload_to_trafficjunky is inside its try block.
InTry == {"authenticate", "group", "limit", "group_loop", "validate",
          "retry_loop", "navigate", "check_result", "done"}

\* RaiseFatal without the except clause: the exception leaves
\* upload_to_trafficjunky and main, and the interpreter exits with 1.
RaiseFatalUncaught ==
    /\ pc \in InTry
    /\ fault = "none"
    /\ fault' = "exception"
    /\ pc' = "exit"
    /\ exit_code' = 1
    /\ valid_files' = << >>
    /\ valid_records' = << >>
    /\ attached' = << >>
    /\ attempt' = 0
    /\ existing_ids' = {}
    /\ post_listing' = << >>
    /\ upload_result' = InitialResult
    /\ calls' = 0
    /\ snapshots' = 0
    /\ sleeps' = 0
    /\ UNCHANGED << group_name, input_vars, library, upload_results, summary,
                    tj_library_cache, groups, chunks, group_idx, chunk_idx,
                    submitted, auth, steps, tab, side_vars >>

\* An exception is raised inside the try block, by the browser, by
\* validate_file or by the bookkeeping: 'except Exception' logs it, the
\* finally clause saves the status CSV from self.upload_results, and the
\* summary is returned as it stands; the locals of the batch end here.
RaiseFatal ==
    /\ pc \in InTry
    /\ fault = "none"
    /\ fault' = "exception"
    /\ pc' = "return"
    /\ valid_files' = << >>
    /\ valid_records' = << >>
    /\ attached' = << >>
    /\ attempt' = 0
    /\ existing_ids' = {}
    /\ post_listing' = << >>
    /\ upload_result' = InitialResult
    /\ calls' = 0
    /\ snapshots' = 0
    /\ sleeps' = 0
    /\ UNCHANGED << group_name, input_vars, library, upload_results, summary,
                    tj_library_cache, groups, chunks, group_idx, chunk_idx,
                    submitted, auth, exit_code, steps, tab, side_vars >>

\* A SIGINT arrives while upload_to_trafficjunky runs.  KeyboardInterrupt
\* is no Exception: neither upload_creative_batch nor the manager catches
\* it, the finally clause saves the status CSV, and main ends with it
\* instead of returning.  During a call of upload_creative_batch the
\* files may or may not have been attached by then.
Interrupt ==
    /\ pc \in InTry
    /\ fault = "none"
    /\ fault' = "interrupt"
    /\ pc' = "interrupted"
    /\ \E files_attached \in BOOLEAN :
          IF files_attached /\ pc = "navigate" /\ ~dry_run
            THEN /\ attached' = [ i \in DOMAIN attached |-> attached[i] + 1 ]
                 /\ submitted' = submitted \cup Positions(valid_records)
            ELSE UNCHANGED << attached, submitted >>
    /\ UNCHANGED << valid_files, valid_records, group_name, attempt,
                    existing_ids, post_listing, upload_result, calls,
                    snapshots, sleeps, input_vars, library, upload_results,
                    summary, tj_library_cache, groups, chunks, group_idx,
                    chunk_idx, auth, exit_code, steps, tab, side_vars >>

\* The run is started with a command line that main accepts.
FaultInit ==
    /\ RunInit
    /\ args = MainArgsOk

\* One invocation of main, in which an exception or an interrupt may
\* come at any point of upload_to_trafficjunky.
FaultNext ==
    \/ Main
    \/ Authenticate
    \/ GroupFiles
    \/ LimitGroups
    \/ NextGroup
    \/ ValidateChunk
    \/ BeginAttempt
    \/ UploadCreativeBatch
    \/ RecordSuccess
    \/ RecordDuplicate
    \/ RecordDryRun
    \/ RetryFailed
    \/ RecordFailed
    \/ NextChunk
    \/ MainReturn
    \/ RaiseFatal
    \/ Interrupt

FaultSpec == FaultInit /\ [][FaultNext]_vars

\* ------------------------------------ _get_existing_creative_ids

\* 'TJ Media Library shows 12 creatives per page'
CreativesPerPage == 12

\* max_pages = 50  # Safety limit to prevent infinite loops
max_pages == 50

MaxListingPages == 51    \* pages of the remote listing

\* A listing of n pages whose last page shows last creatives: page p
\* holds the ids that follow those of page p - 1.
ListingOf(n, last) ==
    [ p \in 1..n |->
        { (p - 1) * CreativesPerPage + k :
              k \in 1..(IF p = n THEN last ELSE CreativesPerPage) } ]

\* The data-id of the containers the page shows when it is at page p.
PageIds(p) == IF p \in DOMAIN listing_pages THEN listing_pages[p] ELSE {}

\* A 'Next' button that is visible and not disabled: the page shown is
\* not the last one.
HasNextButton(p) == p < Len(listing_pages)

\* The manager and the uploader at rest, outside any run.
CoreIdle ==
    /\ Idle
    /\ files = << >>
    /\ config = [limit |-> 0, force |-> FALSE]
    /\ dry_run = TRUE
    /\ library = << >>
    /\ tj_library_cache = [ f \in FileNames |-> 0 ]
    /\ cache_at_start = tj_library_cache
    /\ args = MainArgsOk
    /\ pc = "idle"

\* ScanPage without the safety limit on the number of pages.
ScanPageNoLimit ==
    /\ snap_state = "scan"
    /\ \E raised \in BOOLEAN :
          IF raised
            THEN \E fallback_raised \in BOOLEAN :
                    /\ all_existing_ids' =
                          IF fallback_raised THEN {}
                          ELSE PageIds(current_page)
                    /\ snap_state' = "fell_back"
            ELSE IF PageIds(current_page) = {} /\ current_page = 1
              THEN /\ all_existing_ids' = {}
                   /\ snap_state' = "returned"
              ELSE /\ all_existing_ids' =
                         all_existing_ids \cup PageIds(current_page)
                   /\ snap_state' = "paging"
    /\ UNCHANGED << listing_pages, current_page, core_vars, wait_vars,
                    thumb_vars >>


\* One pass of 'while current_page <= max_pages' up to the search for
\* the Next button: past the last permitted page the loop ends and the
\* set is returned; an empty first page returns the empty set; otherwise
\* the data-id of every container of the page is added.  An exception
\* leads to the fallback, which reads the page shown and returns its ids,
\* or the empty set when it raises too.
ScanPage ==
    /\ snap_state = "scan"
    /\ IF current_page > max_pages
         THEN /\ snap_state' = "returned"
              /\ UNCHANGED all_existing_ids
         ELSE \E raised \in BOOLEAN :
                IF raised
                  THEN \E fallback_raised \in BOOLEAN :
                          /\ all_existing_ids' =
                                IF fallback_raised THEN {}
                                ELSE PageIds(current_page)
                          /\ snap_state' = "fell_back"
                  ELSE IF PageIds(current_page) = {} /\ current_page = 1
                    THEN /\ all_existing_ids' = {}
                         /\ snap_state' = "returned"
                    ELSE /\ all_existing_ids' =
                               all_existing_ids \cup PageIds(current_page)
                         /\ snap_state' = "paging"
    /\ UNCHANGED << listing_pages, current_page, core_vars, wait_vars,
                    thumb_vars >>

\* The rest of the pass: without a usable Next button the loop ends on
\* the last page; otherwise the button is clicked and the counter moves
\* on, and a click that raises ends the loop with what was collected.
NextPage ==
    /\ snap_state = "paging"
    /\ IF ~HasNextButton(current_page)
         THEN /\ snap_state' = "returned"
              /\ UNCHANGED current_page
         ELSE \E clicked \in BOOLEAN :
                IF clicked
                  THEN /\ current_page' = current_page + 1
                       /\ snap_state' = "scan"
                  ELSE /\ snap_state' = "click_failed"
                       /\ UNCHANGED current_page
    /\ UNCHANGED << listing_pages, all_existing_ids, core_vars, wait_vars,
                    thumb_vars >>

\* _get_existing_creative_ids is called on the first page of a listing
\* of up to MaxListingPages pages; an empty library shows no container.
SnapInit ==
    /\ CoreIdle
    /\ WaitIdle
    /\ ThumbIdle
    /\ \E n \in 0..MaxListingPages, last \in {1, CreativesPerPage} :
          listing_pages = ListingOf(n, last)
    /\ current_page = 1
    /\ all_existing_ids = {}
    /\ snap_state = "scan"

SnapNext ==
    \/ ScanPage
    \/ NextPage

SnapSpec == SnapInit /\ [][SnapNext]_vars

\* The scan is one thread whose sleeps and page calls return.
SnapLiveSpec == SnapInit /\ [][SnapNext]_vars /\ WF_vars(SnapNext)



\* ------------------------------------------------------------- claims

\* The attempt has returned to the retry loop with this status, or the
\* batch has been settled with it.
Returned(status) ==
    /\ pc \in {"check_result", "done"}
    /\ upload_result.status = status

\* The records of the batch with a given status.
RecordsWith(status) ==
    { k \in DOMAIN upload_results : upload_results[k].status = status }

\* C1: every id returned by the new-id extraction of an attempt is absent
\* from the id set captured before the upload of that attempt and present
\* in the listing read after the upload.
C1_Freshness ==
    \A k \in DOMAIN upload_result.creative_ids :
        /\ upload_result.creative_ids[k] \notin existing_ids
        /\ upload_result.creative_ids[k] \in Ids(post_listing)

\* C1 witness: ids were returned although a creative captured before the
\* upload carries a label that matches a file of the batch.
C1_Witness ==
    /\ Returned("success")
    /\ \E c \in Range(post_listing) :
          /\ c.id \in existing_ids
          /\ \E i \in DOMAIN valid_files :
                c.name \in {valid_files[i], StripExt(valid_files[i])}

\* C2: the pre-upload snapshot of a batch is taken once, before the first
\* attempt, and not again for a retry.
C2_SnapshotOncePerBatch ==
    snapshots <= 1

\* C3: no file of the batch is attached to the upload form more than once
\* in the run, retries included.
C3_AttachedAtMostOnce ==
    \A i \in DOMAIN attached : attached[i] <= 1

\* C4: upload_creative_batch is never called more than max_retries times
\* for a batch; a backoff wait precedes every call after the first; and a
\* batch whose last attempt failed has had exactly max_retries calls and
\* has every file recorded 'failed' with the error of the final attempt.
C4_BoundedRetry ==
    /\ calls <= max_retries
    /\ sleeps = IF calls = 0 THEN 0 ELSE calls - 1
    /\ (upload_result.status = "failed" /\ calls < max_retries) => pc # "done"
    /\ (pc = "done" /\ upload_result.status = "failed") =>
          /\ calls = max_retries
          /\ upload_results =
                [ i \in DOMAIN valid_files |->
                    SaveUploadResult(i, "failed", 0, upload_result.error) ]
          /\ summary.failed = Len(valid_files)
          /\ summary.successful = 0

\* C4 witness: a batch settled as failed whose final attempt timed out
\* after the files had been attached.
C4_Witness ==
    /\ pc = "done"
    /\ upload_result.status = "failed"
    /\ upload_result.error = "Upload processing timeout"
    /\ Len(valid_files) = 2

\* The new labelled containers of the attempt: in the listing read after
\* the upload and not among the ids captured before it.
NewOfAttempt == NewContainers(post_listing, existing_ids)

\* The new container listed under the name of file i, exactly or with the
\* extension stripped, if there is one.
HasMatch(i) ==
    \E c \in Range(NewOfAttempt) :
        c.name \in {valid_files[i], StripExt(valid_files[i])}

\* The id the matching loop finds for file i.
MatchedId(i) ==
    LET map == FilenameToId(NewOfAttempt)
    IN  IF valid_files[i] \in DOMAIN map THEN map[valid_files[i]]
        ELSE map[StripExt(valid_files[i])]

\* C5: the id recorded as 'success' for a file is a new id listed under
\* that file's name (exactly or without extension), and the files recorded
\* as failed are exactly the files that had no match.
C5_CorrectAttribution ==
    (pc = "done" /\ upload_result.status = "success") =>
        \A k \in DOMAIN upload_results :
            LET r == upload_results[k]
            IN  /\ r.status = "success" =>
                      \E c \in Range(NewOfAttempt) :
                          /\ c.id = r.tj_creative_id
                          /\ c.name \in {r.file_name, StripExt(r.file_name)}
                /\ r.status = "failed" <=> ~HasMatch(r.file)

\* C6: the returned ids keep the order of the files they were matched to,
\* and result[i] is the id matched to file i whenever file i was matched.
C6_OrderPreservation ==
    Returned("success") =>
        \A i \in DOMAIN valid_files :
            HasMatch(i) =>
                /\ i <= Len(upload_result.creative_ids)
                /\ upload_result.creative_ids[i] = MatchedId(i)

\* C7: no two files of a batch are assigned the same new id.
C7_IdConsumedOnce ==
    \A i, j \in DOMAIN upload_result.creative_ids :
        i # j => upload_result.creative_ids[i] # upload_result.creative_ids[j]

\* An attempt returned 'success' with fewer ids than files.
PartialMatch ==
    /\ upload_result.status = "success"
    /\ Len(upload_result.creative_ids) >= 1
    /\ Len(upload_result.creative_ids) < Len(valid_files)

\* The batch is settled with k files recorded 'success' and the other
\* n - k recorded 'failed' for want of an id, under one batch result.
PartialSettled ==
    LET k == Len(upload_result.creative_ids)
        n == Len(valid_files)
    IN  /\ pc = "done"
        /\ Len(upload_results) = n
        /\ Cardinality(RecordsWith("success")) = k
        /\ Cardinality(RecordsWith("failed")) = n - k
        /\ \A x \in RecordsWith("failed") :
              /\ upload_results[x].error_message = "Creative ID not extracted"
              /\ upload_results[x].tj_creative_id = 0
        /\ summary.successful = k
        /\ summary.failed = n - k
        /\ summary.results = 1

\* C8: when an attempt returns k ids for n files with 1 <= k < n, the
\* batch is accepted: k files are recorded 'success', n - k are recorded
\* 'failed' with 'Creative ID not extracted', and the batch is neither
\* submitted nor attached again.
C8_PartialMatchAccepted ==
    [][ (pc = "check_result" /\ PartialMatch) =>
            /\ PartialSettled'
            /\ calls' = calls
            /\ attached' = attached ]_vars

\* C8 witness: a batch of two files settled on one returned id.
C8_Witness ==
    /\ pc = "done"
    /\ PartialMatch
    /\ Len(valid_files) = 2
    /\ Len(upload_results) = 2

\* Every file of the batch is recorded with this status and no id.
AllRecorded(status) ==
    /\ Len(upload_results) = Len(valid_files)
    /\ \A i \in DOMAIN valid_files :
          /\ upload_results[i].file = i
          /\ upload_results[i].status = status
          /\ upload_results[i].tj_creative_id = 0

\* C9: when the listing read after the upload holds no id that is absent
\* from the ids captured before it, the attempt returns 'duplicate', not
\* 'failed'; a 'duplicate' attempt ends the batch without retry, every
\* file recorded 'duplicate' with no id.
C9_DuplicateOutcome ==
    [][ /\ (pc = "extract_ids"
            /\ Ids(Shown(library, tab)) \subseteq existing_ids) =>
              upload_result'.status = "duplicate"
        /\ (pc = "check_result" /\ upload_result.status = "duplicate") =>
              /\ pc' = "done"
              /\ AllRecorded("duplicate")'
              /\ calls' = calls
              /\ attached' = attached ]_vars

\* C9 witness: files were attached, nothing new appeared in the listing,
\* and the batch is settled as duplicate.
C9_Witness ==
    /\ pc = "done"
    /\ upload_result.status = "duplicate"
    /\ Ids(post_listing) \subseteq existing_ids
    /\ \A i \in DOMAIN attached : attached[i] = 1
    /\ AllRecorded("duplicate")

\* C10: in a dry run no file is ever attached to the form; the attempt
\* returns 'dry_run_success' once the upload form is open; that outcome
\* ends the batch without retry, every file recorded 'dry_run'.
C10_DryRun ==
    /\ [](dry_run =>
            /\ \A i \in DOMAIN attached : attached[i] = 0
            /\ pc \notin {"upload_files", "wait_completion", "extract_ids"})
    /\ [][ /\ (dry_run /\ pc = "dry_run_check") =>
                 /\ upload_result'.status = "dry_run_success"
                 /\ pc' = "check_result"
           /\ (pc = "check_result" /\ upload_result.status = "dry_run_success") =>
                 /\ pc' = "done"
                 /\ AllRecorded("dry_run")'
                 /\ calls' = calls ]_vars

\* C10 witness: a dry run of a batch of two files settled as dry run on
\* its second attempt.
C10_Witness ==
    /\ dry_run
    /\ pc = "done"
    /\ upload_result.status = "dry_run_success"
    /\ calls = 2
    /\ Len(valid_files) = 2
    /\ AllRecorded("dry_run")

\* --------------------------------------- _compress_image_to_max_size
\* convert_video calls _compress_image_to_max_size(output_image_path,
\* max_size_kb=300); a kilobyte is 1000 bytes.
max_size_kb == 300

max_size_bytes == max_size_kb * 1000

\* The sizes an encoder may give the file: below, at and above the limit.
ImageSizes ==
    { 1000, max_size_bytes \div 2, max_size_bytes - 1, max_size_bytes,
      max_size_bytes + 1, 2 * max_size_bytes, 4 * max_size_bytes }

\* The PNG compression levels tried, in order, and the JPEG qualities of
\* range(95, 50, -5).
PngLevels == << 8, 9 >>

JpegQualities == << 95, 90, 85, 80, 75, 70, 65, 60, 55 >>

\* The stage that follows the PNG level at index i of PngLevels.
AfterPng(i) ==
    IF i < Len(PngLevels)
    THEN [stage |-> "png", param |-> i + 1]
    ELSE [stage |-> "jpeg", param |-> 1]

\* The stage that follows the JPEG quality at index i of JpegQualities.
AfterJpeg(i) ==
    IF i < Len(JpegQualities)
    THEN [stage |-> "jpeg", param |-> i + 1]
    ELSE [stage |-> "resize", param |-> 0]

CompressReturned == [stage |-> "returned", param |-> 0]

\* The except branch: any call of the function may raise.
CompressRaises ==
    /\ compress_step.stage \in {"check", "imread", "png", "jpeg", "resize"}
    /\ compress_step' = CompressReturned
    /\ compress_result' = [success |-> FALSE, final_size |-> 0]
    /\ UNCHANGED << file_size_bytes, image_file >>
    /\ UNCHANGED << core_vars, snap_vars, wait_vars >>

\* Lines 179-188: the file is measured; small enough, it is left alone.
CheckInitialSize ==
    /\ compress_step.stage = "check"
    /\ file_size_bytes' = image_file.size
    /\ IF image_file.size <= max_size_bytes
       THEN /\ compress_step' = CompressReturned
            /\ compress_result' =
                   [success |-> TRUE, final_size |-> image_file.size]
       ELSE /\ compress_step' = [stage |-> "imread", param |-> 0]
            /\ UNCHANGED compress_result
    /\ UNCHANGED image_file
    /\ UNCHANGED << core_vars, snap_vars, wait_vars >>

\* Lines 191-194: cv2.imread gives the image or None.
ReadImage ==
    /\ compress_step.stage = "imread"
    /\ \E readable \in BOOLEAN :
          IF readable
          THEN /\ compress_step' = [stage |-> "png", param |-> 1]
               /\ UNCHANGED compress_result
          ELSE /\ compress_step' = CompressReturned
               /\ compress_result' = [success |-> FALSE, final_size |-> 0]
    /\ UNCHANGED << file_size_bytes, image_file >>
    /\ UNCHANGED << core_vars, snap_vars, wait_vars >>

\* Lines 198-213: one PNG compression level; a failed write is skipped.
PngCompress ==
    /\ compress_step.stage = "png"
    /\ \E written \in BOOLEAN, size \in ImageSizes :
          IF ~written
          THEN /\ compress_step' = AfterPng(compress_step.param)
               /\ UNCHANGED << file_size_bytes, image_file, compress_result >>
          ELSE /\ image_file' = [size |-> size, encoding |-> "png"]
               /\ file_size_bytes' = size
               /\ IF size <= max_size_bytes
                  THEN /\ compress_step' = CompressReturned
                       /\ compress_result' =
                              [success |-> TRUE, final_size |-> size]
                  ELSE /\ compress_step' = AfterPng(compress_step.param)
                       /\ UNCHANGED compress_result
    /\ UNCHANGED << core_vars, snap_vars, wait_vars >>

\* Lines 217-240: one JPEG quality, written to a temporary file that
\* replaces the image only when it is small enough.
JpegEncode ==
    /\ compress_step.stage = "jpeg"
    /\ \E written \in BOOLEAN, size \in ImageSizes :
          IF ~written
          THEN /\ compress_step' = AfterJpeg(compress_step.param)
               /\ UNCHANGED << file_size_bytes, image_file, compress_result >>
          ELSE /\ file_size_bytes' = size
               /\ IF size <= max_size_bytes
                  THEN /\ image_file' = [size |-> size, encoding |-> "jpeg"]
                       /\ compress_step' = CompressReturned
                       /\ compress_result' =
                              [success |-> TRUE, final_size |-> size]
                  ELSE /\ compress_step' = AfterJpeg(compress_step.param)
                       /\ UNCHANGED << image_file, compress_result >>
    /\ UNCHANGED << core_vars, snap_vars, wait_vars >>

\* Lines 243-262: the image is scaled down and written over the file; the
\* result of the write is not looked at and the size is only reported.
ResizeLastResort ==
    /\ compress_step.stage = "resize"
    /\ \E written \in BOOLEAN, size \in ImageSizes :
          /\ image_file' =
                 IF written
                 THEN [size |-> size, encoding |-> "png"]
                 ELSE image_file
          /\ compress_result' =
                 [success |-> TRUE, final_size |-> image_file'.size]
    /\ compress_step' = CompressReturned
    /\ UNCHANGED file_size_bytes
    /\ UNCHANGED << core_vars, snap_vars, wait_vars >>

\* The thumbnail as ffmpeg wrote it.
ThumbInit ==
    /\ CoreIdle
    /\ SnapIdle
    /\ WaitIdle
    /\ file_size_bytes = 0
    /\ \E size \in ImageSizes :
          image_file = [size |-> size, encoding |-> "png"]
    /\ compress_step = [stage |-> "check", param |-> 0]
    /\ compress_result = [success |-> FALSE, final_size |-> 0]

ThumbNext ==
    \/ CheckInitialSize
    \/ ReadImage
    \/ PngCompress
    \/ JpegEncode
    \/ ResizeLastResort
    \/ CompressRaises

ThumbSpec == ThumbInit /\ [][ThumbNext]_vars

\* --------------------------------------- _wait_for_upload_completion
\* max_wait_time = expected_count * 30 and poll_interval = 2.
SecondsPerFile == 30

poll_interval == 2

MaxWaitFiles == 2

max_wait_time == expected_count * SecondsPerFile

\* What one pass of the loop body finds on the page.
PollOutcomes == {"processing", "no_previews", "counted", "raises"}

\* One pass whose except branch does not sleep.
PollNoSleepOnError ==
    /\ wait_state = "polling"
    /\ elapsed < max_wait_time
    /\ polls' = polls + 1
    /\ \E outcome \in PollOutcomes, completed_count \in 0..(expected_count + 1) :
          IF outcome = "counted" /\ completed_count >= expected_count
          THEN /\ seen_complete' = TRUE
               /\ wait_state' = "complete"
               /\ UNCHANGED elapsed
          ELSE /\ elapsed' =
                      IF outcome = "raises" THEN elapsed
                      ELSE elapsed + poll_interval
               /\ UNCHANGED << seen_complete, wait_state >>
    /\ UNCHANGED expected_count
    /\ UNCHANGED << core_vars, snap_vars, thumb_vars >>

\* Lines 596-641: one pass of the loop. The processing message, missing
\* previews, an incomplete count and an exception all sleep poll_interval
\* and add it to elapsed; a complete count sleeps the 5 second safety
\* buffer, which elapsed does not count, and returns True.
Poll ==
    /\ wait_state = "polling"
    /\ elapsed < max_wait_time
    /\ polls' = polls + 1
    /\ \E outcome \in PollOutcomes, completed_count \in 0..(expected_count + 1) :
          IF outcome = "counted" /\ completed_count >= expected_count
          THEN /\ seen_complete' = TRUE
               /\ wait_state' = "complete"
               /\ UNCHANGED elapsed
          ELSE /\ elapsed' = elapsed + poll_interval
               /\ UNCHANGED << seen_complete, wait_state >>
    /\ UNCHANGED expected_count
    /\ UNCHANGED << core_vars, snap_vars, thumb_vars >>

\* Lines 643-652: the loop guard fails and the function returns False.
WaitTimeout ==
    /\ wait_state = "polling"
    /\ elapsed >= max_wait_time
    /\ wait_state' = "timeout"
    /\ UNCHANGED << expected_count, elapsed, polls, seen_complete >>
    /\ UNCHANGED << core_vars, snap_vars, thumb_vars >>

\* upload_creative_batch, lines 122-124: a False return ends the attempt
\* with the result still 'failed' and the timeout as its error.
UploadCompleteCheck ==
    /\ wait_state \in {"complete", "timeout"}
    /\ IF wait_state = "timeout"
       THEN /\ upload_result' =
                   [InitialResult EXCEPT !.error = "Upload processing timeout"]
            /\ wait_state' = "attempt_failed"
       ELSE /\ UNCHANGED upload_result
            /\ wait_state' = "extract"
    /\ UNCHANGED << expected_count, elapsed, polls, seen_complete >>
    /\ UNCHANGED << valid_files, group_name, dry_run, library, attached, pc,
                    attempt, existing_ids, post_listing, upload_results,
                    summary, tj_library_cache, calls, snapshots, sleeps,
                    run_vars, submitted, steps, tab, fault >>
    /\ UNCHANGED << snap_vars, thumb_vars >>

\* The call _wait_for_upload_completion(page, len(file_paths), ...).
WaitInit ==
    /\ CoreIdle
    /\ SnapIdle
    /\ ThumbIdle
    /\ expected_count \in 1..MaxWaitFiles
    /\ elapsed = 0
    /\ polls = 0
    /\ seen_complete = FALSE
    /\ wait_state = "polling"

WaitNext ==
    \/ Poll
    \/ WaitTimeout
    \/ UploadCompleteCheck

\* One thread runs the loop and every sleep returns.
WaitSpec == WaitInit /\ [][WaitNext]_vars /\ WF_vars(WaitNext)

\* ------------------------------------------------- claims on the plan

\* C11: no planned batch has more than MAX_BATCH_SIZE files, and none is
\* empty; an empty group yields no chunk; a group of MAX_BATCH_SIZE + 1
\* files yields a full chunk followed by a chunk of one file.
C11_ChunkSizeBound ==
    pc = "planned" =>
        \A kind \in Range(GroupOrder) :
            LET cs == chunks[kind]
                n == Len(groups[kind])
            IN  /\ \A c \in DOMAIN cs :
                      Len(cs[c]) >= 1 /\ Len(cs[c]) <= MAX_BATCH_SIZE
                /\ n = 0 => cs = << >>
                /\ n = MAX_BATCH_SIZE + 1 =>
                      /\ Len(cs) = 2
                      /\ cs[1] = SubSeq(groups[kind], 1, MAX_BATCH_SIZE)
                      /\ cs[2] = << groups[kind][n] >>

\* C11 witness: a group of MAX_BATCH_SIZE + 1 files split into two chunks,
\* next to a group that is empty.
C11_Witness ==
    /\ pc = "planned"
    /\ \E kind \in Range(GroupOrder) :
          /\ Len(groups[kind]) = MAX_BATCH_SIZE + 1
          /\ Len(chunks[kind]) = 2
    /\ \E kind \in Range(GroupOrder) :
          groups[kind] = << >> /\ chunks[kind] = << >>

\* The records of a creative type among the input files, in input order.
InputOfType(creative_type) ==
    SelectSeq(files, LAMBDA f : f.creative_type = creative_type)

\* The limit block has run.
Limited == pc \in {"group_loop", "planned"}

\* C13: given native videos and native images and an active limit L, the
\* plan holds exactly the first L native videos of the input, in input
\* order, and exactly the native images whose pair id is the pair id of
\* one of these videos.
C13_PairingTruncation ==
    LET videos == InputOfType(NativeVideoType)
        images == InputOfType(NativeImageType)
        first == SubSeq(videos, 1, Min(config.limit, Len(videos)))
    IN  (Limited /\ config.limit > 0 /\ videos # << >> /\ images # << >>) =>
            /\ groups["native_video"] = first
            /\ groups["native_image"] =
                  SelectSeq(images,
                            LAMBDA f : \E v \in Range(first) :
                                          v.native_pair_id = f.native_pair_id)

\* C13 witness: five native videos and their five images under a limit of
\* two are planned as two videos and their two images.
C13_Witness ==
    /\ pc = "planned"
    /\ config.limit = 2
    /\ Len(InputOfType(NativeVideoType)) = 5
    /\ Len(InputOfType(NativeImageType)) = 5
    /\ Len(groups["native_video"]) = 2
    /\ { f.native_pair_id : f \in Range(groups["native_image"]) } = {1, 2}
    /\ Len(groups["native_image"]) = 2

\* C15: whenever a limit L is active, the planned native videos are at
\* most L and every planned native image is paired with a planned native
\* video, also when only one of the two native groups is non-empty.
C15_LimitOnEveryInput ==
    (Limited /\ config.limit > 0) =>
        /\ Len(groups["native_video"]) <= config.limit
        /\ \A f \in Range(groups["native_image"]) :
              \E v \in Range(groups["native_video"]) :
                  v.native_pair_id = f.native_pair_id

\* The chunks of a list joined in the order of their emission.
RECURSIVE JoinChunks(_)
JoinChunks(cs) ==
    IF cs = << >> THEN << >> ELSE Head(cs) \o JoinChunks(Tail(cs))

\* The records of a list stand in the order of the input.
InInputOrder(fs) ==
    \A i, j \in DOMAIN fs : i < j => fs[i].pos < fs[j].pos

\* C28: for each kind the chunks joined in emission order are that kind's
\* candidate list, which is in input order and holds files of that kind
\* only; no candidate is in two chunks or in the chunks of two kinds.
C28_ChunkPartition ==
    pc = "planned" =>
        /\ \A kind \in Range(GroupOrder) :
              /\ JoinChunks(chunks[kind]) = groups[kind]
              /\ InInputOrder(JoinChunks(chunks[kind]))
              /\ \A f \in Range(JoinChunks(chunks[kind])) :
                    /\ GroupOf(f.creative_type) = kind
                    /\ files[f.pos] = f
        /\ \A k1, k2 \in Range(GroupOrder) :
              \A c1 \in DOMAIN chunks[k1], c2 \in DOMAIN chunks[k2] :
                  (k1 # k2 \/ c1 # c2) =>
                      Positions(chunks[k1][c1]) \cap Positions(chunks[k2][c2]) = {}

\* C28 witness: eleven images planned as the chunk of files 1 to 10
\* followed by the chunk of file 11.
C28_Witness ==
    /\ pc = "planned"
    /\ Len(groups["image"]) = MAX_BATCH_SIZE + 1
    /\ Positions(chunks["image"][1]) = 1..MAX_BATCH_SIZE
    /\ Positions(chunks["image"][2]) = {MAX_BATCH_SIZE + 1}
    /\ JoinChunks(chunks["image"]) = files

\* -------------------------------------------------- claims on the run

\* A batch is under upload: between the validation of its chunk and the
\* step to the next chunk.
BatchInProgress == pc \in {"retry_loop", "navigate", "check_result", "done"}

\* The records saved for the file record at a position of the input.
RecordsOf(pos) ==
    { k \in DOMAIN upload_results : upload_results[k].pos = pos }

\* The file records that are in a chunk of the plan.
Planned ==
    UNION { Range(groups[kind]) : kind \in Range(GroupOrder) }

\* The place of a creative type in the order native video, native image,
\* video, image (short videos count as videos).
KindRank(creative_type) ==
    CASE creative_type = NativeVideoType -> 1
      [] creative_type = NativeImageType -> 2
      [] creative_type \in { <<"video">>, <<"short", "video">> } -> 3
      [] creative_type = <<"image">> -> 4
      [] OTHER -> 5

\* C12: a batch holds files of one kind only, and while a batch is under
\* upload every planned file of an earlier kind, in the order native
\* video, native image, video, image, has its result recorded and no file
\* of a later kind has been submitted, whatever the order of the input.
C12_KindOrder ==
    BatchInProgress =>
        /\ \A f, g \in Range(valid_records) :
              KindRank(f.creative_type) = KindRank(g.creative_type)
        /\ \A f \in Range(valid_records), g \in Planned :
              /\ KindRank(g.creative_type) < KindRank(f.creative_type) =>
                    RecordsOf(g.pos) # {}
              /\ KindRank(g.creative_type) > KindRank(f.creative_type) =>
                    /\ g.pos \notin submitted
                    /\ RecordsOf(g.pos) = {}

\* C12 witness: the session lists an image before a native video; the
\* image is attached after the batch of the native video has failed
\* and been recorded.
C12_Witness ==
    /\ pc = "check_result"
    /\ Len(files) = 2
    /\ files[1].creative_type = <<"image">>
    /\ files[2].creative_type = NativeVideoType
    /\ Positions(valid_records) = {1}
    /\ submitted = {1, 2}
    /\ \E k \in RecordsOf(2) : upload_results[k].status = "failed"

\* C14: in a run with an active limit, a native image is submitted to the
\* platform only if the native video of its pair has been submitted in
\* the same run.
C14_NoOrphanedImage ==
    config.limit > 0 =>
        \A f \in Range(files) :
            (f.creative_type = NativeImageType /\ f.pos \in submitted) =>
                \E v \in Range(files) :
                    /\ v.creative_type = NativeVideoType
                    /\ v.native_pair_id = f.native_pair_id
                    /\ v.pos \in submitted

\* The statuses a result record can carry.
TerminalStatuses == {"success", "failed", "skipped", "duplicate", "dry_run"}

\* upload_to_trafficjunky has gone through every batch and returned.
RunCompleted == pc \in {"return", "exit"} /\ auth = "logged_in"

\* C16: no file record ever has two result records; every record carries
\* one of the statuses success, failed, skipped, duplicate, or dry_run in
\* a dry run; and when the run has completed, every file record that was
\* in a chunk has exactly one result record.
C16_ExactlyOneRecord ==
    /\ \A i \in DOMAIN files : Cardinality(RecordsOf(i)) <= 1
    /\ \A k \in DOMAIN upload_results :
          /\ upload_results[k].status \in TerminalStatuses
          /\ upload_results[k].status = "dry_run" => dry_run
    /\ RunCompleted =>
          \A f \in Planned : Cardinality(RecordsOf(f.pos)) = 1

\* C16 witness: a completed run of two files of which one was skipped and
\* the other failed on every attempt.
C16_Witness ==
    /\ RunCompleted
    /\ Len(files) = 2
    /\ Len(upload_results) = 2
    /\ { upload_results[k].status : k \in DOMAIN upload_results }
           = {"skipped", "failed"}
    /\ submitted # {}

\* C17: when the authentication fails the run ends before anything is
\* grouped, validated or handed to the uploader: no call of
\* upload_creative_batch, nothing submitted, no result record, and a
\* summary with successful = failed = skipped = 0 and no results.
C17_AuthFailureAborts ==
    auth = "failed" =>
        /\ pc \in {"return", "exit"}
        /\ groups = EmptyGroups
        /\ valid_files = << >>
        /\ calls = 0
        /\ submitted = {}
        /\ upload_results = << >>
        /\ summary = [successful |-> 0, failed |-> 0, skipped |-> 0,
                      results |-> 0]

\* C17 witness: the authentication failed for a live session that holds a
\* file ready for upload, and upload_to_trafficjunky has returned.
C17_Witness ==
    /\ auth = "failed"
    /\ pc = "return"
    /\ ~dry_run
    /\ \E f \in Range(files) :
          ValidateFile(f).is_valid /\ f.tj_creative_id = 0

\* main found nothing to run: placeholder credentials, no --session, no
\* file in the session, or a platform that is not implemented.
SetupFailed ==
    \/ ~args.credentials
    \/ args.source # "session"
    \/ files = << >>
    \/ args.platform # "tj"

\* C18: the exit code is 1 when the setup or the authentication failed
\* and 0 when the run completed, whatever its per-file results.
C18_ExitCode ==
    pc = "exit" =>
        exit_code = IF SetupFailed \/ auth = "failed" THEN 1 ELSE 0

\* C19: a file recorded 'success' is in the duplicate cache under its file
\* name with the recorded id; and in a second run of the same session
\* without --force, a file whose name the cache held when the run began
\* is never handed to the uploader nor submitted, any record it gets is
\* 'skipped' with the cached id, and it has that record when the run has
\* completed.
C19_Idempotence ==
    /\ \A k \in DOMAIN upload_results :
          upload_results[k].status = "success" =>
              tj_library_cache[upload_results[k].file_name]
                  = upload_results[k].tj_creative_id
    /\ (run_no = 2 /\ ~config.force) =>
          \A f \in Range(files) :
              cache_at_start[f.new_filename] # 0 =>
                  /\ f \notin Range(valid_records)
                  /\ f.pos \notin submitted
                  /\ \A k \in RecordsOf(f.pos) :
                        /\ upload_results[k].status = "skipped"
                        /\ upload_results[k].tj_creative_id
                               = cache_at_start[f.new_filename]
                  /\ RunCompleted => RecordsOf(f.pos) # {}

\* C19 witness: the second run has completed; a file uploaded by the first
\* run was skipped with its cached id, and the other file of the session,
\* which the first run did not upload, was submitted.
C19_Witness ==
    /\ run_no = 2
    /\ ~config.force
    /\ RunCompleted
    /\ Len(files) = 2
    /\ \E f, g \in Range(files) :
          /\ cache_at_start[f.new_filename] # 0
          /\ \E k \in RecordsOf(f.pos) :
                /\ upload_results[k].status = "skipped"
                /\ upload_results[k].error_message
                       = "Already exists on TJ (from library cache)"
          /\ cache_at_start[g.new_filename] = 0
          /\ g.pos \in submitted


\* The constraint of the platform that a file record violates: the file
\* is not on disk, a native image is larger than 300 KB, an in-stream
\* video with a known duration is shorter than 5 s or longer than 31 s;
\* "None" when it violates none.
Violation(f) ==
    LET in_stream == f.creative_type \in { <<"video">>, <<"short", "video">> }
    IN  IF ~f.on_disk THEN "File not found"
        ELSE IF /\ f.creative_type = NativeImageType
                /\ f.size > 300 * BytesPerKB
          THEN "Native image too large"
        ELSE IF /\ in_stream
                /\ f.duration_seconds # 0
                /\ f.duration_seconds < 5 * Hundredths
          THEN "In-Stream video too short"
        ELSE IF in_stream /\ f.duration_seconds > 31 * Hundredths
          THEN "In-Stream video too long"
        ELSE "None"

ChunksBefore ==
    UNION { UNION { Range(Chunks(groups[GroupOrder[g]])[c]) :
                      c \in { d \in DOMAIN Chunks(groups[GroupOrder[g]]) :
                                g < group_idx \/ d < chunk_idx } } :
              g \in { h \in DOMAIN GroupOrder : h <= group_idx } }

\* C21: an exception raised inside upload_to_trafficjunky never leaves
\* it: the function returns its summary, main goes on to exit with 0, the
\* exception takes no result record away, and every file record of the
\* batches that were dealt with before it has its result record.
C21_NothingThrowsPast ==
    /\ [](fault = "exception" =>
            /\ pc \in {"return", "exit"}
            /\ pc = "exit" => exit_code = 0
            /\ \A f \in ChunksBefore : Cardinality(RecordsOf(f.pos)) = 1)
    /\ [][ (fault = "none" /\ fault' = "exception") =>
              /\ pc' = "return"
              /\ upload_results' = upload_results
              /\ summary' = summary ]_vars

\* C21 witness: the exception came before the second batch was
\* recorded; the summary was returned, and the file of the first batch
\* has its record.
C21_Witness ==
    /\ fault = "exception"
    /\ pc = "exit"
    /\ exit_code = 0
    /\ ChunksBefore # {}
    /\ \E f \in Planned \ ChunksBefore : RecordsOf(f.pos) = {}
    /\ \E f \in ChunksBefore :
          \E k \in RecordsOf(f.pos) : upload_results[k].status = "success"

\* C24: when the run has stopped on an interrupt, no batch is left in
\* flight: every file of the batch that was under upload when the
\* interrupt came has its result record, and none was attached without
\* one.
C24_CancelBetweenBatches ==
    fault = "interrupt" =>
        /\ \A f \in Range(valid_records) : RecordsOf(f.pos) # {}
        /\ \A pos \in submitted : RecordsOf(pos) # {}

\* ------------------------------------------ claims on the snapshot

\* C22: when _get_existing_creative_ids has returned from a scan in which
\* nothing raised, its set holds the id of every creative of every page
\* of the listing, and the scan has reached the last page.
C22_ExhaustiveSnapshot ==
    snap_state = "returned" =>
        /\ \A p \in DOMAIN listing_pages :
              listing_pages[p] \subseteq all_existing_ids
        /\ ~HasNextButton(current_page)

\* ----------------------------------------- claims on the thumbnail
\* C23: whenever the compression reports success, the image file is no
\* larger than the limit of 300 000 bytes.
C23_SizeCeiling ==
    (compress_step.stage = "returned" /\ compress_result.success)
        => image_file.size <= max_size_bytes

\* ------------------------------------------------ claims on the wait
\* C25: for n files the wait polls every 2 time units, never counts more
\* than 30*n elapsed time units or 15*n polls, always returns, returns
\* success only after a poll that saw completedCount >= n, and otherwise
\* returns the timeout that leaves the attempt failed.
C25_AwaitTerminates ==
    /\ [](/\ elapsed = poll_interval * (polls - (IF seen_complete THEN 1 ELSE 0))
          /\ elapsed <= 30 * expected_count
          /\ polls <= 15 * expected_count
          /\ wait_state \in {"complete", "extract"} => seen_complete
          /\ wait_state \in {"timeout", "attempt_failed"} => ~seen_complete
          /\ wait_state = "attempt_failed" =>
                /\ upload_result.status = "failed"
                /\ upload_result.error = "Upload processing timeout"
                /\ upload_result.creative_ids = << >>)
    /\ <>(wait_state \in {"extract", "attempt_failed"})

\* The wait of a batch of two files times out after 30 polls.
C25_Witness ==
    /\ wait_state = "attempt_failed"
    /\ expected_count = 2
    /\ polls = 30
    /\ elapsed = 60
    /\ ~seen_complete

\* ---------------------------------- claims on the steps of an attempt
\* The step called name returned True before position i of the attempt.
OkBefore(name, i) ==
    \E j \in 1..(i - 1) : steps[j] = Step(name, TRUE)

\* The tab of a native creative type was selected before position i.
KindSelectedBefore(i) ==
    /\ IsNative(group_name) => OkBefore("native_tab", i)
    /\ group_name = "native_video" => OkBefore("rollover_tab", i)

\* Navigation, tab selection and the upload form all succeeded before i.
FormReadyBefore(i) ==
    /\ OkBefore("navigate", i)
    /\ KindSelectedBefore(i)
    /\ OkBefore("add_creative", i)

\* C26: within one attempt the files are attached only after navigation,
\* the tab selection of a native kind and the opening of the form have
\* succeeded, the wait starts only after a successful attach, and the
\* extraction of new ids runs only after the wait reported completion.
C26_StepOrder ==
    /\ [](\A i \in DOMAIN steps :
            /\ steps[i].step = "upload_files" => FormReadyBefore(i)
            /\ steps[i].step = "wait_completion" => OkBefore("upload_files", i)
            /\ steps[i].step = "extract_ids" => OkBefore("wait_completion", i))
    /\ [][ /\ attached' # attached =>
                /\ FormReadyBefore(Len(steps) + 1)
                /\ steps' = Append(steps, Step("upload_files", TRUE))
           /\ library' # library => OkBefore("upload_files", Len(steps) + 1)
           /\ (post_listing' # post_listing /\ post_listing' # << >>) =>
                OkBefore("wait_completion", Len(steps) + 1) ]_vars

\* A native_video attempt that went through all eight steps.
C26_Witness ==
    /\ group_name = "native_video"
    /\ pc = "check_result"
    /\ Len(steps) = 8
    /\ steps[8] = Step("extract_ids", TRUE)
    /\ \A i \in DOMAIN attached : attached[i] > 0

\* The steps that report failure by returning False.
CheckedSteps ==
    {"navigate", "native_tab", "rollover_tab", "add_creative",
     "upload_files", "wait_completion"}

\* C27: a step that fails is the last step of its attempt and is executed
\* once; the attempt then returns status 'failed' with an error and no id.
C27_FailingStepFatal ==
    /\ \A i \in DOMAIN steps :
          (steps[i].step \in CheckedSteps /\ ~steps[i].ok) =>
              /\ i = Len(steps)
              /\ pc \in {"check_result", "retry_loop", "done"}
              /\ upload_result.status = "failed"
              /\ upload_result.error \notin {"None", ""}
              /\ upload_result.creative_ids = << >>
    /\ \A i, j \in DOMAIN steps : steps[i].step = steps[j].step => i = j

\* The wait of the third attempt timed out after the files were attached
\* three times, and the batch was recorded failed.
C27_Witness ==
    /\ pc = "done"
    /\ attempt = max_retries - 1
    /\ steps # << >>
    /\ steps[Len(steps)] = Step("wait_completion", FALSE)
    /\ \A i \in DOMAIN attached : attached[i] = max_retries
    /\ upload_result.error = "Upload processing timeout"

\* ------------------------------------------ claims on the duplicates
\* C29: whenever the files of a batch are recorded with status
\* 'duplicate', the listing read after the upload held no id that was
\* absent from the snapshot taken before it.
C29_DuplicateOnlyIfNoNewId ==
    (\E k \in DOMAIN upload_results : upload_results[k].status = "duplicate")
        => Ids(post_listing) \subseteq existing_ids

\* -------------------------------------------- claims on the listings
\* C30: for a native batch no id that the native listing already held
\* before the upload is returned as a new id.  The creatives with an id
\* up to MaxPre are the ones that were there before the run.
C30_FreshnessPerListing ==
    IsNative(group_name) =>
        \A i \in DOMAIN library :
            (library[i].id <= MaxPre /\ library[i].tab = KindTab(group_name))
                => library[i].id \notin Range(upload_result.creative_ids)

\* ------------------------------------------- claims on the counters
\* The number of result records of the run with one of the statuses.
CountOf(statuses) ==
    Cardinality({ k \in DOMAIN upload_results :
                      upload_results[k].status \in statuses })

\* C31: in every state of a run the three counters of the summary add up
\* to the number of result records of the run; successful counts the
\* 'success' records, failed the 'failed' records, and skipped the
\* 'skipped', 'duplicate' and 'dry_run' records.
C31_CountersMatchRecords ==
    /\ summary.successful + summary.failed + summary.skipped
           = Len(upload_results)
    /\ summary.successful = CountOf({"success"})
    /\ summary.failed = CountOf({"failed"})
    /\ summary.skipped = CountOf({"skipped", "duplicate", "dry_run"})

\* C31 witness: a run that skipped one file at validation and found the
\* other a duplicate counts two skipped files.
C31_Witness ==
    /\ pc = "exit"
    /\ summary.skipped = 2
    /\ CountOf({"skipped"}) = 1
    /\ CountOf({"duplicate"}) = 1

\* summary['total'] = len(files)
SummaryTotal == Len(files)

\* The files the counters of the summary have counted.
Counted == summary.successful + summary.failed + summary.skipped

\* C32 as stated: the counters never exceed total, and at the end of a
\* completed run they add up to total, whatever the input and the limit.
C32_CountersReachTotal ==
    /\ Counted <= SummaryTotal
    /\ RunCompleted => Counted = SummaryTotal

\* C32 amended: the counters never exceed total; at the end of a completed
\* run they add up to the number of files that were planned into a chunk,
\* which is total when no limit is set and every record is of one of the
\* four kinds.  The files a limit cuts off are counted nowhere.
C32_CountersReachPlanned ==
    /\ Counted <= SummaryTotal
    /\ RunCompleted => Counted = Cardinality(Planned)
    /\ (/\ RunCompleted
        /\ config.limit = 0
        /\ \A i \in DOMAIN files : GroupOf(files[i].creative_type) # "none")
           => Counted = SummaryTotal

\* C32 witness: a completed run of two images under a limit of one has
\* counted one file of a total of two.
C32_Witness ==
    /\ RunCompleted
    /\ pc = "exit"
    /\ config.limit = 1
    /\ SummaryTotal = 2
    /\ Cardinality(Planned) = 1
    /\ Counted = 1

\* ---------------------------------------------- claims on the cache
\* The result records a step appends.
Appended ==
    IF Len(upload_results') >= Len(upload_results)
      THEN { upload_results'[k] :
                 k \in (Len(upload_results) + 1)..Len(upload_results') }
      ELSE {}

\* C33: during a run an entry of the library cache changes only for a
\* file that is recorded 'success' in the same step, and then to the id
\* of that record; every 'success' record puts its id into the cache, and
\* the records 'failed', 'duplicate', 'dry_run' and 'skipped' change
\* nothing.  So the cache differs from the cache the run started with
\* only in files the run recorded 'success', and holds the id of every
\* 'success' record.
C33_CacheGrowsOnSuccess ==
    /\ [][ /\ \A f \in DOMAIN tj_library_cache :
                 tj_library_cache'[f] # tj_library_cache[f] =>
                     \E r \in Appended :
                         /\ r.file_name = f
                         /\ r.status = "success"
                         /\ r.tj_creative_id = tj_library_cache'[f]
           /\ \A r \in Appended :
                 IF r.status = "success"
                   THEN tj_library_cache'[r.file_name] = r.tj_creative_id
                   ELSE tj_library_cache'[r.file_name]
                            = tj_library_cache[r.file_name] ]_vars
    /\ [](/\ \A f \in DOMAIN tj_library_cache :
               tj_library_cache[f] # cache_at_start[f] =>
                   \E k \in DOMAIN upload_results :
                       /\ upload_results[k].file_name = f
                       /\ upload_results[k].status = "success"
                       /\ upload_results[k].tj_creative_id = tj_library_cache[f]
          /\ \A k \in DOMAIN upload_results :
               upload_results[k].status = "success" =>
                   tj_library_cache[upload_results[k].file_name]
                       = upload_results[k].tj_creative_id)

\* C33 witness: a batch of two files of which one was recorded 'success'
\* and entered the cache and the other was recorded 'failed' and did not.
C33_Witness ==
    /\ pc = "exit"
    /\ \E k \in DOMAIN upload_results :
          /\ upload_results[k].status = "success"
          /\ tj_library_cache[upload_results[k].file_name]
                 = upload_results[k].tj_creative_id
    /\ \E k \in DOMAIN upload_results :
          /\ upload_results[k].status = "failed"
          /\ upload_results[k].file # 0
          /\ tj_library_cache[upload_results[k].file_name] = 0

\* -------------------------------------------- claims on the dry run
\* C34: in a dry run, whatever batches have gone by, successful stays 0,
\* the library cache is the cache the run started with, nothing is
\* attached or created on the platform, and the master CSV and the
\* campaign CSVs are not written.
C34_DryRunChangesNoLedger ==
    dry_run =>
        /\ summary.successful = 0
        /\ tj_library_cache = cache_at_start
        /\ ~MasterCsvWritten
        /\ CountOf({"success"}) = 0
        /\ submitted = {}
        /\ library = << >>

\* C34 witness: a dry run has gone through two batches and returned.
C34_Witness ==
    /\ dry_run
    /\ pc = "exit"
    /\ RunCompleted
    /\ summary.results = 2
    /\ CountOf({"dry_run"}) = 2
    /\ summary.skipped = 2

\* ---------------------------------------------- claims on --force
\* The record appended for the file record at a position by a step.
AppendedFor(pos) == { r \in Appended : r.pos = pos }

\* The step appends a 'skipped' record with this id and error for f and
\* leaves f out of the batch.
SkippedWith(f, creative_id, error) ==
    /\ AppendedFor(f.pos) # {}
    /\ \A r \in AppendedFor(f.pos) :
          /\ r.status = "skipped"
          /\ r.tj_creative_id = creative_id
          /\ r.error_message = error
    /\ pc' = "retry_loop" => f \notin Range(valid_records')

\* The step saves nothing for f and puts it into the batch.
KeptForUpload(f) ==
    /\ AppendedFor(f.pos) = {}
    /\ pc' = "retry_loop"
    /\ f \in Range(valid_records')

\* C35: the screening of a chunk skips a file that fails validation
\* whether or not --force is given, and with the validation error; a
\* valid file with a known id or a cache hit is kept for the batch with
\* --force and skipped without it, the known id taking precedence; and a
\* file kept for the batch is among the files a live attempt attaches.
C35_ForceReupload ==
    /\ [][ pc = "validate" =>
             \A f \in Range(ChunkFiles) :
                 LET cached_id == CheckTjLibraryDuplicate(f.new_filename)
                 IN  IF ~ValidateFile(f).is_valid
                       THEN SkippedWith(f, 0, ValidateFile(f).error)
                     ELSE IF config.force
                       THEN KeptForUpload(f)
                     ELSE IF f.tj_creative_id # 0
                       THEN SkippedWith(f, f.tj_creative_id,
                                "Already uploaded (use --force to re-upload)")
                     ELSE IF cached_id # 0
                       THEN SkippedWith(f, cached_id,
                                "Already exists on TJ (from library cache)")
                     ELSE KeptForUpload(f) ]_vars
    /\ [](\A i \in DOMAIN attached :
             attached[i] > 0 => valid_records[i].pos \in submitted)

\* C35 witness: in a second run with --force a file that has a known id
\* and a cache hit has been attached again, next to a record that failed
\* validation and was skipped.
C35_Witness ==
    /\ config.force
    /\ run_no = 2
    /\ pc = "check_result"
    /\ \E i \in DOMAIN valid_records :
          /\ valid_records[i].tj_creative_id # 0
          /\ CheckTjLibraryDuplicate(valid_records[i].new_filename) # 0
          /\ attached[i] > 0
    /\ \E k \in DOMAIN upload_results :
          /\ upload_results[k].status = "skipped"
          /\ upload_results[k].tj_creative_id = 0

\* --------------------------------- claims on the end of the snapshot
\* _get_existing_creative_ids has returned: at the end of the loop, from
\* the fallback of the except branch, or after a click that raised.
SnapReturned == snap_state \in {"returned", "fell_back", "click_failed"}

AllSkipped == \A k \in DOMAIN ChunkFiles : Screen(ChunkFiles[k]).skip

\* C37: a chunk whose candidates are all skipped gets its 'skipped'
\* records and nothing else: upload_creative_batch is not called for it,
\* no batch-level result is added and the loop moves on; the batch loop
\* never calls upload_creative_batch with an empty list; and a call of
\* upload_creative_batch with an empty list returns 'failed' with
\* 'No files provided', having read and changed nothing on the platform.
C37_NoEmptySubmission ==
    /\ [][(pc = "validate" /\ AllSkipped) =>
            /\ pc' \in {"validate", "group_loop"}
            /\ calls' = calls
            /\ snapshots' = snapshots
            /\ submitted' = submitted
            /\ library' = library
            /\ upload_result' = upload_result
            /\ summary'.results = summary.results
            /\ summary'.successful = summary.successful
            /\ summary'.failed = summary.failed
            /\ Len(upload_results') = Len(upload_results) + Len(ChunkFiles)
            /\ \A k \in DOMAIN upload_results' :
                  k > Len(upload_results) =>
                      upload_results'[k].status = "skipped"]_vars
    /\ [](pc \in {"retry_loop", "navigate", "check_result"}
             => valid_files # << >>)
    /\ []((pc = "direct_returned" /\ valid_files = << >>) =>
            /\ upload_result =
                  [status |-> "failed", creative_ids |-> << >>,
                   error |-> "No files provided"]
            /\ snapshots = 0
            /\ existing_ids = {}
            /\ post_listing = << >>
            /\ submitted = {}
            /\ CreatedInRun(library) = 0)

\* C37 witness: a run is over whose only chunk was skipped whole: the
\* file has its 'skipped' record, no batch-level result exists and
\* nothing was submitted.
C37_Witness ==
    /\ RunCompleted
    /\ Len(files) > 0
    /\ Len(upload_results) = Len(files)
    /\ \A k \in DOMAIN upload_results : upload_results[k].status = "skipped"
    /\ summary.results = 0
    /\ submitted = {}
    /\ library = << >>

\* upload_creative_batch has returned from a call with an empty list.
C37_EmptyCallReturned ==
    /\ pc = "direct_returned"
    /\ valid_files = << >>
    /\ upload_result.error = "No files provided"
=============================================================================
